---- MODULE Spec2Model ----
(***************************************************************************)
(* Model of kcz17/dimmer: the dimming reverse proxy.                        *)
(*                                                                         *)
(*   SpecLoop    ServerControlLoop at statement granularity: Start, the    *)
(*               steps of Reset, the steps of one tick of each loop        *)
(*               goroutine, and the handlers' addResponseTime.             *)
(*   Spec        Server: ListenAndServe, SetDimmingMode, the admin         *)
(*               set-mode handler, the online trainer's goroutine, the     *)
(*               control loop at tick granularity and the request handler. *)
(*   SpecHandler Server.requestHandler applied to every request and every  *)
(*               outcome of its random draws, in every server state.       *)
(*                                                                         *)
(* Real numbers are fixed point: a float64 x is the integer x * Scale.     *)
(* Durations are integers in milliseconds (seconds * Scale).               *)
(***************************************************************************)
EXTENDS Integers, Sequences, FiniteSets, TLC

\* ------------------------------------------------------------------ bounds
\* Number of ServerControlLoop.Reset calls explored in SpecLoop.
MaxResets == 2
\* Latest instant (seconds) at which a ticker still fires.
MaxTime == 2
\* Window of the bounded (tachymeter) collector.
Window == 2

\* Fixed-point unit.
Scale == 1000

\* Response times a proxied request can take, in milliseconds.
Durations == {200, 3000}

\* ------------------------------------------------------- PID controller
\* Controller parameters (configuration; main passes isReversed = true).
Setpoint == 1000
Kp == 50000
Ki == 10000
Kd == 1000
MinSampleTime == 1000
MinOutput == 0
MaxOutput == 99000
LowPassPoleNum == 9
LowPassPoleDen == 10
IsReversed == TRUE

\* NewPIDController: the gains change sign when the controller is reversed.
M_Gain(k) == k
Gain(k) == IF IsReversed THEN 0 - k ELSE k

\* Fixed-point product and quotient.
Mul(a, b) == (a * b) \div Scale
Quo(a, b) == (a * Scale) \div b

\* The controller after construction and after Reset; lastTick = 0 is the
\* zero instant.
PidZero == [lastOutput |-> 0, lastTick |-> 0, lastInput |-> 0, integral |-> 0]

\* PIDController.Output: elapsed < c.minSampleTime once a call has been made.
M_Gated(c, elapsed) == c.lastTick # 0 /\ elapsed <= MinSampleTime
Gated(c, elapsed) == c.lastTick # 0 /\ elapsed < MinSampleTime

\* PIDController.Output: the output is kept within [minOutput, maxOutput].
M_Clamp(raw) == raw
Clamp(raw) ==
  IF raw > MaxOutput THEN MaxOutput
  ELSE IF raw < MinOutput THEN MinOutput ELSE raw

\* PIDController.Output: the low-pass filter on the input.
Smoothed(lastInput, rawInput) ==
  (LowPassPoleNum * lastInput
     + (LowPassPoleDen - LowPassPoleNum) * rawInput) \div LowPassPoleDen

\* PIDController.Output: the controller state after the call; the value
\* returned is its lastOutput. `t` is clock.Now() and c.lastTick the last
\* tick, both in milliseconds.
PidOutputAt(c, rawInput, t) ==
  LET elapsed == IF c.lastTick # 0 THEN t - c.lastTick ELSE 0
      input == Smoothed(c.lastInput, rawInput)
      errorTerm == Setpoint - input
      p == Mul(Gain(Kp), errorTerm)
      integral == c.integral + Mul(Mul(Gain(Ki), errorTerm), elapsed)
      d == IF elapsed # 0
             THEN Mul(Gain(Kd), 0 - Quo(input - c.lastInput, elapsed))
             ELSE 0
      output == Clamp(p + integral + d)
  IN IF Gated(c, elapsed)
       THEN c
       ELSE [lastOutput |-> output, lastTick |-> t, lastInput |-> input,
             integral |-> output - d - p]

\* PIDController.Output on a clock that ticks in seconds: `t` and c.lastTick
\* are in seconds.
PidOutput(c, rawInput, t) ==
  LET after == PidOutputAt([c EXCEPT !.lastTick = @ * Scale], rawInput, t * Scale)
  IN [after EXCEPT !.lastTick = @ \div Scale]

\* ------------------------------------------------ response-time collector
Range(s) == {s[i] : i \in DOMAIN s}

\* tachymeter keeps the last `w` times in a ring.
RingAdd(s, x, w) == IF Len(s) < w THEN Append(s, x) ELSE Append(Tail(s), x)

\* tachymeterCollector.Len of a collector made with NewTachymeterCollector(w)
\* that holds the times `s`: return c.window
tachymeterCollectorLen(s, w) == w

\* The k-th smallest (1-based) of a non-empty sequence of numbers.
KthSmallest(ts, k) ==
  CHOOSE v \in Range(ts) :
    /\ Cardinality({i \in DOMAIN ts : ts[i] < v}) < k
    /\ Cardinality({i \in DOMAIN ts : ts[i] <= v}) >= k

Times(s) == [i \in DOMAIN s |-> s[i].t]

\* tachymeterCollector.Aggregate: tachymeter's Calc returns zero metrics when
\* empty, P50 = sorted[n/2] and Pq = sorted[int(n*q + 0.5) - 1].
Aggregate(s) ==
  LET n == Len(s) IN
  IF n = 0 THEN [P50 |-> 0, P75 |-> 0, P95 |-> 0]
  ELSE [P50 |-> KthSmallest(Times(s), (n \div 2) + 1),
        P75 |-> KthSmallest(Times(s), (n * 75 + 50) \div 100),
        P95 |-> KthSmallest(Times(s), (n * 95 + 50) \div 100)]

\* Percentile handed to the PID (configuration, default "p95").
responseTimePercentile == "p95"

VARIABLES
  \* ServerControlLoop
  loopStarted,            \* c.loopStarted
  loopStop,               \* c.loopStop: id of the current stop channel, 0 = nil
  closedChans,            \* stop channels that have been closed
  loopWaiter,             \* c.loopWaiter: id of the current WaitGroup, 0 = nil
  waiterCount,            \* WaitGroup id -> counter
  loopPc,                 \* goroutine id -> position in controlLoop
  loopInput,              \* goroutine id -> the percentile it aggregated
  loopOutput,             \* goroutine id -> its local pidOutput
  responseTimeCollector,  \* sequence of [t, stale]; stale is history only
  pid,                    \* PIDController state
  now,                    \* the clock, seconds
  dimmingPercentage,      \* c.dimmingPercentage
  resetPc,                \* position of the Reset call in progress
  \* history of the control loop
  loopRet,                \* error returned by the last Start / Reset
  resetsReturned,         \* Reset calls that have returned nil
  resetsZeroed,           \* Reset calls that have zeroed the percentage
  lastWrite,              \* last write of the percentage by a loop goroutine
  lastAggregate,          \* last Aggregate by a loop goroutine
  lastPidCall,            \* last pid.Output by a loop goroutine
  pidCallsSinceReset      \* pid.Output calls since the last Reset returned

loopVars == <<loopStarted, loopStop, closedChans, loopWaiter, waiterCount,
              loopPc, loopInput, loopOutput, responseTimeCollector, pid, now,
              dimmingPercentage, resetPc>>
loopHist == <<loopRet, resetsReturned, resetsZeroed, lastWrite, lastAggregate,
              lastPidCall, pidCallsSinceReset>>

\* Goroutine, channel and WaitGroup ids: Start creates 1, the k-th Reset k+1.
Gens == 1..(MaxResets + 1)

LoopInit ==
  /\ loopStarted = FALSE
  /\ loopStop = 0
  /\ closedChans = {}
  /\ loopWaiter = 0
  /\ waiterCount = [g \in Gens |-> 0]
  /\ loopPc = [g \in Gens |-> "unborn"]
  /\ loopInput = [g \in Gens |-> 0]
  /\ loopOutput = [g \in Gens |-> 0]
  /\ responseTimeCollector = <<>>
  /\ pid = PidZero
  /\ now = 1
  /\ dimmingPercentage = 0
  /\ resetPc = "idle"
  /\ loopRet = "none"
  /\ resetsReturned = 0
  /\ resetsZeroed = 0
  /\ lastWrite = [gen |-> 0, zeroed |-> 0]
  /\ lastAggregate = [gen |-> 0, stale |-> FALSE]
  /\ lastPidCall = [gen |-> 0, first |-> FALSE, fromZero |-> FALSE]
  /\ pidCallsSinceReset = 0

\* make(chan), &sync.WaitGroup{}, Add(1), go c.controlLoop() for goroutine g.
SpawnControlLoop(g) ==
  /\ loopStop' = g
  /\ loopWaiter' = g
  /\ waiterCount' = [waiterCount EXCEPT ![g] = 1]
  /\ loopPc' = [loopPc EXCEPT ![g] = "select"]

\* ServerControlLoop.Start
ControlLoopStart ==
  /\ resetPc = "idle"
  /\ IF loopStarted
       THEN /\ loopRet' = "already started"
            /\ UNCHANGED <<loopStarted, loopStop, loopWaiter, waiterCount, loopPc>>
       ELSE /\ SpawnControlLoop(1)
            /\ loopStarted' = TRUE
            /\ loopRet' = "ok"
  /\ UNCHANGED <<closedChans, loopInput, loopOutput, responseTimeCollector,
                 pid, now, dimmingPercentage, resetPc, resetsReturned,
                 resetsZeroed, lastWrite, lastAggregate, lastPidCall,
                 pidCallsSinceReset>>

\* ServerControlLoop.Reset, up to close(c.loopStop).
ResetClose ==
  /\ resetPc = "idle"
  /\ resetsReturned < MaxResets
  /\ IF ~loopStarted
       THEN /\ loopRet' = "not running"
            /\ UNCHANGED <<closedChans, resetPc>>
       ELSE /\ closedChans' = closedChans \cup {loopStop}
            /\ resetPc' = "wait"
            /\ loopRet' = "none"
  /\ UNCHANGED <<loopStarted, loopStop, loopWaiter, waiterCount, loopPc,
                 loopInput, loopOutput, responseTimeCollector, pid, now,
                 dimmingPercentage, resetsReturned, resetsZeroed, lastWrite,
                 lastAggregate, lastPidCall, pidCallsSinceReset>>

\* c.loopWaiter.Wait() returns when the WaitGroup's counter is zero.
M_WaitReturns(w) == TRUE
WaitReturns(w) == waiterCount[w] = 0

\* Reset: c.loopWaiter.Wait()
ResetWait ==
  /\ resetPc = "wait"
  /\ WaitReturns(loopWaiter)
  /\ resetPc' = "collector"
  /\ UNCHANGED <<loopStarted, loopStop, closedChans, loopWaiter, waiterCount,
                 loopPc, loopInput, loopOutput, responseTimeCollector, pid,
                 now, dimmingPercentage>>
  /\ UNCHANGED loopHist

\* Reset: c.responseTimeCollector.Reset()
ResetCollector ==
  /\ resetPc = "collector"
  /\ responseTimeCollector' = <<>>
  /\ resetPc' = "pid"
  /\ UNCHANGED <<loopStarted, loopStop, closedChans, loopWaiter, waiterCount,
                 loopPc, loopInput, loopOutput, pid, now, dimmingPercentage>>
  /\ UNCHANGED loopHist

\* Reset: c.pid.Reset()
ResetPid ==
  /\ resetPc = "pid"
  /\ pid' = PidZero
  /\ resetPc' = "percentage"
  /\ UNCHANGED <<loopStarted, loopStop, closedChans, loopWaiter, waiterCount,
                 loopPc, loopInput, loopOutput, responseTimeCollector, now,
                 dimmingPercentage>>
  /\ UNCHANGED loopHist

\* Reset: c.dimmingPercentage = 0.0 under the write lock
ResetPercentage ==
  /\ resetPc = "percentage"
  /\ dimmingPercentage' = 0
  /\ resetPc' = "restart"
  /\ resetsZeroed' = resetsZeroed + 1
  /\ UNCHANGED <<loopStarted, loopStop, closedChans, loopWaiter, waiterCount,
                 loopPc, loopInput, loopOutput, responseTimeCollector, pid, now>>
  /\ UNCHANGED <<loopRet, resetsReturned, lastWrite, lastAggregate,
                 lastPidCall, pidCallsSinceReset>>

\* Reset: start a new control loop and return nil. What the collector holds
\* now was added before Reset returned.
ResetRestart ==
  /\ resetPc = "restart"
  /\ SpawnControlLoop(resetsReturned + 2)
  /\ resetPc' = "idle"
  /\ loopRet' = "ok"
  /\ resetsReturned' = resetsReturned + 1
  /\ pidCallsSinceReset' = 0
  /\ responseTimeCollector' =
       [i \in DOMAIN responseTimeCollector |->
          [responseTimeCollector[i] EXCEPT !.stale = TRUE]]
  /\ UNCHANGED <<loopStarted, closedChans, loopInput, loopOutput, pid, now,
                 dimmingPercentage, resetsZeroed, lastWrite, lastAggregate,
                 lastPidCall>>

\* The percentile of an aggregation that the loop feeds to the PID.
ChosenPercentile(a) ==
  IF responseTimePercentile = "p50" THEN a.P50
  ELSE IF responseTimePercentile = "p75" THEN a.P75
  ELSE a.P95

\* controlLoop, case <-ticker.C: c.responseTimeCollector.Aggregate()
LoopTick(g) ==
  /\ loopPc[g] = "select"
  /\ now < MaxTime
  /\ now' = now + 1
  /\ loopInput' = [loopInput EXCEPT
                     ![g] = ChosenPercentile(Aggregate(responseTimeCollector))]
  /\ loopPc' = [loopPc EXCEPT ![g] = "aggregated"]
  /\ lastAggregate' =
       [gen |-> g,
        stale |-> \E i \in DOMAIN responseTimeCollector :
                     responseTimeCollector[i].stale]
  /\ UNCHANGED <<loopStarted, loopStop, closedChans, loopWaiter, waiterCount,
                 loopOutput, responseTimeCollector, pid, dimmingPercentage,
                 resetPc>>
  /\ UNCHANGED <<loopRet, resetsReturned, resetsZeroed, lastWrite, lastPidCall,
                 pidCallsSinceReset>>

\* controlLoop: pidOutput = c.pid.Output(p)
LoopPid(g) ==
  /\ loopPc[g] = "aggregated"
  /\ pid' = PidOutput(pid, loopInput[g], now)
  /\ loopOutput' = [loopOutput EXCEPT ![g] = pid'.lastOutput]
  /\ loopPc' = [loopPc EXCEPT ![g] = "computed"]
  /\ lastPidCall' = [gen |-> g, first |-> pidCallsSinceReset = 0,
                     fromZero |-> pid = PidZero]
  /\ pidCallsSinceReset' = IF pidCallsSinceReset = 0 THEN 1 ELSE pidCallsSinceReset
  /\ UNCHANGED <<loopStarted, loopStop, closedChans, loopWaiter, waiterCount,
                 loopInput, responseTimeCollector, now, dimmingPercentage,
                 resetPc>>
  /\ UNCHANGED <<loopRet, resetsReturned, resetsZeroed, lastWrite, lastAggregate>>

\* controlLoop: c.dimmingPercentage = pidOutput under the write lock
LoopWrite(g) ==
  /\ loopPc[g] = "computed"
  /\ dimmingPercentage' = loopOutput[g]
  /\ loopPc' = [loopPc EXCEPT ![g] = "select"]
  /\ lastWrite' = [gen |-> g, zeroed |-> resetsZeroed]
  /\ UNCHANGED <<loopStarted, loopStop, closedChans, loopWaiter, waiterCount,
                 loopInput, loopOutput, responseTimeCollector, pid, now, resetPc>>
  /\ UNCHANGED <<loopRet, resetsReturned, resetsZeroed, lastAggregate,
                 lastPidCall, pidCallsSinceReset>>

\* controlLoop, case <-c.loopStop: return; the deferred loopWaiter.Done() is
\* bound to the WaitGroup the goroutine was started with.
LoopStop(g) ==
  /\ loopPc[g] = "select"
  /\ loopStop \in closedChans
  /\ loopPc' = [loopPc EXCEPT ![g] = "exited"]
  /\ waiterCount' = [waiterCount EXCEPT ![g] = 0]
  /\ UNCHANGED <<loopStarted, loopStop, closedChans, loopWaiter, loopInput,
                 loopOutput, responseTimeCollector, pid, now,
                 dimmingPercentage, resetPc>>
  /\ UNCHANGED loopHist

\* ServerControlLoop.addResponseTime, called by request handlers once the
\* server is serving.
addResponseTime(t) ==
  /\ loopStarted
  /\ responseTimeCollector' =
       RingAdd(responseTimeCollector, [t |-> t, stale |-> FALSE], Window)
  /\ UNCHANGED <<loopStarted, loopStop, closedChans, loopWaiter, waiterCount,
                 loopPc, loopInput, loopOutput, pid, now, dimmingPercentage,
                 resetPc>>
  /\ UNCHANGED loopHist

\* ------------------------------------------------------ strings, cookies
\* A string is a sequence of tokens ("/", "cart", ".html", ...); the empty
\* sequence is the empty string.  strings.Contains:
Contains(s, sub) ==
  \E i \in 0..(Len(s) - Len(sub)) : SubSeq(s, i + 1, i + Len(sub)) = sub

\* prependLeadingSlashIfMissing
prependLeadingSlashIfMissing(path) ==
  IF Len(path) = 0 \/ path[1] # "/" THEN <<"/">> \o path ELSE path

\* ---------------------------------------------------------- RequestFilter
\* toRequestFilterRule: method + " " + path
toRequestFilterRule(path, method) == <<method, " ">> \o path

NewRequestFilter == [rules |-> {}, refererExclusions |-> <<>>]

\* r.refererExclusions[rule], nil (empty) when the key is absent.
M_ExclusionsOf(r, rule) == <<>>
ExclusionsOf(r, rule) ==
  IF rule \in DOMAIN r.refererExclusions THEN r.refererExclusions[rule] ELSE <<>>

\* RequestFilter.Matches
Matches(r, path, method, referer) ==
  LET rule == toRequestFilterRule(path, method) IN
  /\ rule \in r.rules
  /\ \A i \in DOMAIN ExclusionsOf(r, rule) :
        ~Contains(referer, ExclusionsOf(r, rule)[i])

\* RequestFilter.AddPath
M_AddPath(r, path, method) ==
  [r EXCEPT !.rules =
     @ \cup {toRequestFilterRule(prependLeadingSlashIfMissing(path), method)}]
AddPath(r, path, method) ==
  LET p == prependLeadingSlashIfMissing(path) IN
  [r EXCEPT !.rules = @ \cup {toRequestFilterRule(Tail(p), method),
                              toRequestFilterRule(p, method)}]

\* RequestFilter.AddRefererExclusion; the filter is unchanged when the rule
\* does not exist (the call returns an error).
AddRefererExclusion(r, path, method, substring) ==
  LET p == prependLeadingSlashIfMissing(path)
      rule == toRequestFilterRule(p, method)
      ruleWithoutPrependingSlash == toRequestFilterRule(Tail(p), method)
  IN IF rule \notin r.rules THEN r
     ELSE [r EXCEPT !.refererExclusions =
             [k \in DOMAIN @ \cup {rule, ruleWithoutPrependingSlash} |->
                IF k = rule
                  THEN Append(ExclusionsOf(r, rule), substring)
                ELSE IF k = ruleWithoutPrependingSlash
                  THEN Append(ExclusionsOf(r, ruleWithoutPrependingSlash), substring)
                ELSE @[k]]]

\* The filter of the deployment: GET cart is dimmable unless the referer
\* contains "basket"; GET news.html is dimmable.
requestFilter ==
  AddPath(
    AddRefererExclusion(AddPath(NewRequestFilter, <<"cart">>, "GET"),
                        <<"cart">>, "GET", <<"basket">>),
    <<"news", ".html">>, "GET")

\* ------------------------------------------------------ PathProbabilities
\* NewPathProbabilities; main sets the default value to 1.
NewPathProbabilities(defaultValue) ==
  [probabilities |-> <<>>, defaultValue |-> defaultValue]

\* PathProbabilities.Get
Get(p, path) ==
  IF path \in DOMAIN p.probabilities THEN p.probabilities[path]
  ELSE p.defaultValue

\* PathProbabilities.Set: the check that returns the error.
M_SetRejects(rule) == rule.Probability < 0
SetRejects(rule) == rule.Probability < 0 \/ rule.Probability > Scale

\* PathProbabilities.Set for a probability within [0, 1]; outside it the
\* call returns an error and stores nothing.
PathProbabilitiesSet(p, rule) ==
  IF SetRejects(rule) THEN p
  ELSE LET path == prependLeadingSlashIfMissing(rule.Path) IN
       [p EXCEPT !.probabilities =
          [k \in DOMAIN @ \cup {path, Tail(path)} |->
             IF k \in {path, Tail(path)} THEN rule.Probability ELSE @[k]]]

\* PathProbabilities.SampleShouldDim: rand.Float64() < p.Get(path)
M_SampleShouldDim(p, path, roll) == roll + 1 < Get(p, path)
SampleShouldDim(p, path, roll) == roll < Get(p, path)

\* ----------------------------------------------------------------- modes
Disabled == "Disabled"
OfflineTraining == "OfflineTraining"
Dimming == "Dimming"
DimmingWithProfiling == "DimmingWithProfiling"
DimmingWithOnlineTraining == "DimmingWithOnlineTraining"
Modes == {Disabled, OfflineTraining, Dimming, DimmingWithProfiling,
          DimmingWithOnlineTraining}

VARIABLES
  \* Server
  dimmingMode,                 \* s.dimmingMode
  defaultDimmingMode,          \* s.defaultDimmingMode
  isProfilingEnabled,          \* s.isProfilingEnabled
  pathProbabilities,           \* s.dimming.PathProbabilities
  offlineResponseTimes,        \* s.offlineTraining.responseTimeCollector
  \* OnlineTraining
  candidatePathProbabilities,  \* t.candidatePathProbabilities
  controlGroupResponseTimes,   \* t.controlGroupResponseTimes
  candidateGroupResponseTimes, \* t.candidateGroupResponseTimes
  \* ProfiledRequestAggregator
  lowCount, highCount,
  aggregator,                  \* decayMux, and the positions and locals of the
                               \* goroutines that decay and read the counters
  \* history: the last request handled and what the handler did with it
  lastReq

\* --------------------------------------------------------------- Profiler
\* Profiler probabilities (configuration defaults).
LowPriorityDimmingProbability == 990
LowPriorityDimmingProbabilityMultiplier == 1000
HighPriorityDimmingProbability == 10
HighPriorityDimmingProbabilityMultiplier == 1000

\* len(request.Header.Cookie(key)) != 0
RequestHasPriorityCookie(req) == req.priority # ""
HasDimmingDecisionCookie(req) == req.decision # ""
RequestHasCookie(req) == req.training # ""

\* ReadDimmingDecisionCookie
M_ReadDimmingDecisionCookie(req) == req.decision # "false"
ReadDimmingDecisionCookie(req) == req.decision = "true"

\* RequestHasCandidateCookie
M_RequestHasCandidateCookie(req) == req.training \notin {"", "CONTROL"}
RequestHasCandidateCookie(req) == req.training = "CANDIDATE"

\* Profiler.DimmingDecisionProbabilityForPriorityCookie
DimmingDecisionProbabilityForPriorityCookie(req) ==
  LET numLow == lowCount * Scale
      numHigh == highCount * Scale
      expectation ==
        Mul(LowPriorityDimmingProbability, numLow + Scale)
          + Mul(HighPriorityDimmingProbability, numHigh + Scale)
  IN IF req.priority = "low"
       THEN Mul(Mul(LowPriorityDimmingProbabilityMultiplier,
                    LowPriorityDimmingProbability),
                Quo(numLow, expectation))
     ELSE IF req.priority = "high"
       THEN Mul(Mul(HighPriorityDimmingProbabilityMultiplier,
                    HighPriorityDimmingProbability),
                Quo(numHigh, expectation))
     ELSE 0

\* profiling.SampleDimmingForPriorityCookie: a draw against the probability
\* of the request's priority.
SampleDimmingForPriorityCookie(req, roll) ==
  roll < DimmingDecisionProbabilityForPriorityCookie(req)

\* profiling.RequestHasUnknownCookie: the request already carries a PRIORITY
\* cookie.
RequestHasUnknownCookie(req) == req.priority # ""

\* ------------------------------------------------- Server.requestHandler
\* requestHandler: isDimmingEnabled := s.dimmingMode != Disabled
M_isDimmingEnabled(mode) == TRUE
isDimmingEnabled(mode) == mode # Disabled

\* requestHandler: shouldUseOnlineTrainingCandidateGroupProbabilities
M_shouldUseOnlineTrainingCandidateGroupProbabilities(mode, req) == RequestHasCandidateCookie(req)
shouldUseOnlineTrainingCandidateGroupProbabilities(mode, req) ==
  mode = DimmingWithOnlineTraining /\ RequestHasCandidateCookie(req)

\* The shed decision of requestHandler for a request handled in `mode`, the
\* three rand.Float64() draws being rollDim, rollPri and rollPath.
\*   shed        the response is 429 "Dimming!" and the handler returns
\*   decision    value of the DIMMING_DECISION cookie set on the response,
\*               "" when none is set
\*   sampled     a per-priority decision was sampled, d its value
\*   skip        skipPathProbabilities
\*   candidate   the candidate group's probabilities weighted the decision
ShedDecision(mode, req, rollDim, rollPri, rollPath) ==
  LET isDimmableRequest == Matches(requestFilter, req.path, req.method, req.referer)
      baseline == mode = OfflineTraining \/ rollDim * 100 < dimmingPercentage
      profiled == /\ isProfilingEnabled
                  /\ mode = DimmingWithProfiling
                  /\ req.session # ""
      reuse == profiled /\ HasDimmingDecisionCookie(req)
      sampled == profiled /\ ~HasDimmingDecisionCookie(req)
                   /\ RequestHasPriorityCookie(req)
      dimmingDecision == baseline /\ SampleDimmingForPriorityCookie(req, rollPri)
      skipPathProbabilities ==
        IF reuse THEN TRUE ELSE IF sampled THEN dimmingDecision ELSE FALSE
      afterProfiling ==
        IF reuse THEN ReadDimmingDecisionCookie(req)
        ELSE IF sampled THEN baseline \/ dimmingDecision
        ELSE baseline
      useCandidate == shouldUseOnlineTrainingCandidateGroupProbabilities(mode, req)
      shouldDim ==
        IF skipPathProbabilities THEN afterProfiling
        ELSE IF useCandidate
          THEN afterProfiling
                 /\ SampleShouldDim(candidatePathProbabilities, req.path, rollPath)
          ELSE afterProfiling
                 /\ SampleShouldDim(pathProbabilities, req.path, rollPath)
      considered == isDimmingEnabled(mode) /\ isDimmableRequest
  IN [shed |-> considered /\ shouldDim,
      dimmable |-> considered,
      sampled |-> considered /\ sampled,
      d |-> considered /\ sampled /\ dimmingDecision,
      decision |-> IF considered /\ sampled
                     THEN (IF dimmingDecision THEN "true" ELSE "false")
                     ELSE "",
      skip |-> considered /\ skipPathProbabilities,
      candidate |-> considered /\ ~skipPathProbabilities /\ useCandidate]

\* Array collectors are unbounded; the model stops adding at MaxSamples.
MaxSamples == 2

\* onlineTrainingCookieCandidateProbability
CandidateCookieProbability == 50

\* Draws of rand.Float64(), in [0, 1).
Rolls == {0, 999}

\* Answers of PriorityFetcher.Fetch: a priority, or an error.
FetchResults == {"unknown", "low", "high", "error"}

\* arrayCollector.Add
ArrayAdd(s, t) == Append(s, [t |-> t, stale |-> FALSE])

\* requestHandler: if !strings.Contains(string(ctx.Path()), ".html")
M_IsFedBack(req) == TRUE
IsFedBack(req) == ~Contains(req.path, <<".html">>)

\* requestHandler, the feedback of a forwarded request that took `duration`:
\* the collectors afterwards.
Feedback(mode, req, duration) ==
  LET counted == IsFedBack(req)
      cohort == counted /\ mode = DimmingWithOnlineTraining /\ RequestHasCookie(req)
  IN [loop |-> IF counted
                 THEN RingAdd(responseTimeCollector,
                              [t |-> duration, stale |-> FALSE], Window)
                 ELSE responseTimeCollector,
      offline |-> IF counted /\ mode = OfflineTraining
                    THEN ArrayAdd(offlineResponseTimes, duration)
                    ELSE offlineResponseTimes,
      candidate |-> IF cohort /\ RequestHasCandidateCookie(req)
                      THEN ArrayAdd(candidateGroupResponseTimes, duration)
                      ELSE candidateGroupResponseTimes,
      control |-> IF cohort /\ ~RequestHasCandidateCookie(req)
                    THEN RingAdd(controlGroupResponseTimes,
                                 [t |-> duration, stale |-> FALSE], Window)
                    ELSE controlGroupResponseTimes]

\* requestHandler: does the handler fetch the session's priority?
FetchesPriority(mode, req) ==
  /\ isProfilingEnabled
  /\ mode = DimmingWithProfiling
  /\ req.session # ""
  /\ ~RequestHasUnknownCookie(req)
  /\ Contains(req.path, <<".html">>)

\* requestHandler: does the handler sample an online training cookie?
SamplesTrainingCookie(mode, req) ==
  /\ mode = DimmingWithOnlineTraining
  /\ Contains(req.path, <<".html">>)
  /\ ~RequestHasCookie(req)

\* requestHandler, the cookies and profiling calls of a forwarded request.
\*   written    Requests.Write was called for the session
\*   priority   value of the PRIORITY cookie set, "" when none
\*   profile    Priorities.Profile was called
\*   training   value of the ONLINE_TRAINING cookie set, "" when none
CookieIssuance(mode, req, fetched, rollCookie) ==
  LET profiled == isProfilingEnabled /\ mode = DimmingWithProfiling
                    /\ req.session # ""
      fetches == FetchesPriority(mode, req)
  IN [written |-> profiled,
      priority |-> IF fetches /\ fetched # "error" THEN fetched ELSE "",
      profile |-> fetches /\ fetched = "unknown",
      training |-> IF SamplesTrainingCookie(mode, req)
                     THEN (IF rollCookie < CandidateCookieProbability
                             THEN "CANDIDATE" ELSE "CONTROL")
                     ELSE ""]

NoCookies == [written |-> FALSE, priority |-> "", profile |-> FALSE, training |-> ""]

NoRequest == [handled |-> FALSE]

\* What lastReq records of a handled request; backendOk tells whether
\* proxy.Do returned nil (TRUE for a request that was not forwarded).
Handled(mode, req, dec, status, body, cookies, backendOk) ==
  [handled |-> TRUE, mode |-> mode, req |-> req, status |-> status,
   body |-> body, forwarded |-> status # 429, dec |-> dec, cookies |-> cookies,
   backendOk |-> backendOk]

\* The array collectors a request's feedback appends to stay within MaxSamples.
HasRoom(f) ==
  /\ Len(f.offline) <= MaxSamples
  /\ Len(f.candidate) <= MaxSamples

\* Server.requestHandler, the effect on the server of one request: nothing
\* for the 429 answer, else the feedback of the proxied call.
RequestEffects(req, rollDim, rollPri, rollPath, duration) ==
  LET dec == ShedDecision(dimmingMode, req, rollDim, rollPri, rollPath)
      f == Feedback(dimmingMode, req, duration)
  IN IF dec.shed
       THEN UNCHANGED <<responseTimeCollector, offlineResponseTimes,
                        candidateGroupResponseTimes, controlGroupResponseTimes>>
       ELSE /\ HasRoom(f)
            /\ responseTimeCollector' = f.loop
            /\ offlineResponseTimes' = f.offline
            /\ candidateGroupResponseTimes' = f.candidate
            /\ controlGroupResponseTimes' = f.control

\* Server.requestHandler, the answer to one request. An error of proxy.Do
\* is logged and the handler goes on; the response then has no backend body.
RequestAnswer(req, rollDim, rollPri, rollPath, rollCookie, fetched, backendOk) ==
  LET dec == ShedDecision(dimmingMode, req, rollDim, rollPri, rollPath)
  IN IF dec.shed
       THEN Handled(dimmingMode, req, dec, 429, "Dimming!", NoCookies, TRUE)
       ELSE Handled(dimmingMode, req, dec, 200,
                    IF backendOk THEN "backend" ELSE "",
                    CookieIssuance(dimmingMode, req, fetched, rollCookie),
                    backendOk)

\* ------------------------------------------------------- KS test, trainer
\* coefficients[P99d5], in hundredths.
CoefficientP99d5 == 173

\* stat.KolmogorovSmirnov times n1 * n2: the largest difference of the two
\* empirical distribution functions.
KSStatisticScaled(x, y) ==
  LET D(v) == Cardinality({i \in DOMAIN x : x[i] <= v}) * Len(y)
                - Cardinality({i \in DOMAIN y : y[i] <= v}) * Len(x)
      Abs(n) == IF n < 0 THEN 0 - n ELSE n
      ds == {Abs(D(v)) : v \in Range(x) \cup Range(y)}
  IN CHOOSE m \in ds : \A o \in ds : o <= m

\* coefficients, in hundredths, by Percentile.
coefficients ==
  [P90 |-> 122, P95 |-> 136, P97d5 |-> 148, P99 |-> 163, P99d5 |-> CoefficientP99d5, P99d9 |-> 195]

\* The critical value coeff * sqrt((n1 + n2) / (n1 * n2)), squared and times
\* (100 * n1 * n2)^2.
M_CriticalValueScaled(coeff, n1, n2) == coeff * coeff * (n1 + n1) * n1 * n2
CriticalValueScaled(coeff, n1, n2) == coeff * coeff * (n1 + n2) * n1 * n2

\* KolmogorovSmirnovTestRejection: statistic > critical value, compared as
\* squares. With an empty sample the critical value is +Inf or NaN and the
\* comparison is false.
KolmogorovSmirnovTestRejectionAt(control, candidate, percentile) ==
  LET n1 == Len(control)
      n2 == Len(candidate)
      k == KSStatisticScaled(control, candidate)
  IN IF n1 = 0 \/ n2 = 0 THEN FALSE
     ELSE k * k * 100 * 100 > CriticalValueScaled(coefficients[percentile], n1, n2)

\* KolmogorovSmirnovTestRejection at P99d5, the level the trainer passes.
KolmogorovSmirnovTestRejection(control, candidate) ==
  KolmogorovSmirnovTestRejectionAt(control, candidate, "P99d5")

\* stats.Percentile of montanaflynn/stats on a non-empty sample.
StatsPercentile(ts, q) ==
  LET n == Len(ts)
      index == q * n
  IN IF n = 1 THEN ts[1]
     ELSE IF index % 100 = 0 THEN KthSmallest(ts, index \div 100)
     ELSE (KthSmallest(ts, index \div 100)
             + KthSmallest(ts, (index \div 100) + 1)) \div 2

\* arrayCollector.Aggregate
ArrayAggregate(s) ==
  IF Len(s) = 0 THEN [P50 |-> 0, P75 |-> 0, P95 |-> 0]
  ELSE [P50 |-> StatsPercentile(Times(s), 50),
        P75 |-> StatsPercentile(Times(s), 75),
        P95 |-> StatsPercentile(Times(s), 95)]

\* checkCandidateImprovesResponseTimes: thresholds.
EnoughDataP95 == 50
ImprovementPercent == 85

VARIABLES
  \* Server
  isStarted,                \* s.isStarted
  externalOperationsLock,   \* TRUE while the mutex is held
  proxying,                 \* [server, proxy]: ids of the objects, 0 = nil
  \* OnlineTraining
  trainerLoopStarted,       \* t.loopStarted
  trainerStopClosed,        \* t.loopStop has been closed
  trainerPc,                \* position of the trainingLoop goroutine
  trainerGen,               \* trainingLoop goroutines started so far
  isInAdjustmentPeriod,     \* local of trainingLoop
  newCandidateRules,        \* local of trainingLoop
  paths,                    \* t.paths
  lastPathIndexSampled,     \* t.lastPathIndexSampled (0-based)
  \* calls in progress and history
  sdmPc,                    \* position of the SetDimmingMode call in progress
  sdmNew,                   \* its newMode
  lastCall,                 \* the last SetDimmingMode / set-mode request
  listenRet,                \* what each ListenAndServe invocation returned
  calls                     \* SetDimmingMode calls and set-mode requests so far

\* Number of ListenAndServe invocations explored.
MaxListenCalls == 2
\* Number of SetDimmingMode calls and set-mode requests explored.
MaxCalls == 2
\* Number of trainingLoop goroutines explored.
MaxTrainerStarts == 2

\* Values SampleTruncatedNormalDistribution(0, 1, mean, variance) can return.
ProbabilityDraws == {500}

\* initPaths
InitialPaths == << <<"cart">>, <<"news", ".html">> >>

\* PathProbabilities.SetAll for rules that Set accepts.
\* PathProbabilities.SetAll: Set rule by rule, returning at the first error.
RECURSIVE SetAll(_, _)
SetAll(p, rules) ==
  IF rules = <<>> \/ SetRejects(Head(rules)) THEN p
  ELSE SetAll(PathProbabilitiesSet(p, Head(rules)), Tail(rules))

\* The paths SetAll stores: those of the rules before the first rejected one.
RECURSIVE StoredPaths(_)
StoredPaths(rules) ==
  IF rules = <<>> \/ SetRejects(Head(rules)) THEN {}
  ELSE {Head(rules).Path} \cup StoredPaths(Tail(rules))

\* PathProbabilities.Clear
Clear(p) == [p EXCEPT !.probabilities = <<>>]

\* NewOnlineTraining: the candidate probabilities start as the control ones.
NewCandidatePathProbabilities(control, ps, defaultValue) ==
  SetAll(NewPathProbabilities(defaultValue),
         [i \in DOMAIN ps |-> [Path |-> ps[i], Probability |-> Get(control, ps[i])]])

\* sampleCandidateGroupProbabilities with `draw` for the sampled path; the
\* index is 0-based as in the source.
M_nextIndexToSample == lastPathIndexSampled % Len(paths)
nextIndexToSample == (lastPathIndexSampled + 1) % Len(paths)

sampleCandidateGroupProbabilities(draw) ==
  [i \in DOMAIN paths |->
     [Path |-> paths[i],
      Probability |-> IF i - 1 = nextIndexToSample THEN draw
                      ELSE Get(candidatePathProbabilities, paths[i])]]

M_checkCandidateImprovesResponseTimes ==
  LET controlP95 == Aggregate(controlGroupResponseTimes).P95
      candidateP95 == ArrayAggregate(candidateGroupResponseTimes).P95
  IN /\ candidateP95 > EnoughDataP95
     /\ ~(ImprovementPercent * controlP95 <= 100 * candidateP95)

\* checkCandidateImprovesResponseTimes
checkCandidateImprovesResponseTimes ==
  LET controlP95 == Aggregate(controlGroupResponseTimes).P95
      candidateP95 == ArrayAggregate(candidateGroupResponseTimes).P95
  IN /\ candidateP95 > EnoughDataP95
     /\ ~(ImprovementPercent * controlP95 <= 100 * candidateP95)
     /\ KolmogorovSmirnovTestRejection(Times(controlGroupResponseTimes),
                                       Times(candidateGroupResponseTimes))

VARIABLES
  \* The live PathProbabilities as an object shared by goroutines
  probabilitiesMux,   \* the RWMutex: number of read holders, write holder
  probabilitiesMap,   \* identity of the map p.probabilities points at
  listed,             \* the map List returned to the admin handler, 0 if none
  callerPc,           \* position of each goroutine calling into the object
  setSinceClear       \* history: the paths of the rules Set has stored since
                      \* the table was made or last cleared

VARIABLES
  \* A RequestFilter being configured
  filter,     \* the filter: rules and refererExclusions
  added,      \* history: the <<path, method>> pairs passed to AddPath
  excluded    \* history: the <<path, method, substring>> triples that
              \* AddRefererExclusion accepted

\* NewRequestFilter() has returned.
FilterInit ==
  /\ filter = NewRequestFilter
  /\ added = {}
  /\ excluded = {}

\* ------------------------------------------------------------ variables
profVars == <<lowCount, highCount, aggregator>>

\* const decayFactor
decayFactor == 2

\* sync.RWMutex, and the nil pointer a *sync.RWMutex field holds until one
\* is assigned to it.
NilRWMutex == [allocated |-> FALSE, readers |-> 0, writer |-> FALSE]
NewRWMutex == [allocated |-> TRUE, readers |-> 0, writer |-> FALSE]

\* An aggregator with `mux` in decayMux, before its decay goroutine has
\* ticked and before any request has read it. The fields after the locals
\* are history: the number of times each counter has been halved
\* (lowDecays, highDecays), those numbers at the time the reader loaded each
\* counter (lowSeen, highSeen), the marks that fell between the decay's load
\* and store of a counter (overlap), and the decay steps and the
\* computations completed.
AggregatorWith(mux) ==
  [decayMux |-> mux,
   decayPc |-> "ticking", loaded |-> 0,
   readPc |-> "idle", numLow |-> 0, numHigh |-> 0,
   lowDecays |-> 0, highDecays |-> 0, lowSeen |-> 0, highSeen |-> 0,
   overlap |-> 0, decays |-> 0, reads |-> 0]

\* NewProfiledRequestAggregator: the literal sets both counters and leaves
\* decayMux nil.
NewProfiledRequestAggregator == AggregatorWith(NilRWMutex)
probabilitiesLocks == <<probabilitiesMux, probabilitiesMap, listed, callerPc>>
probabilitiesVars == <<probabilitiesLocks, setSinceClear>>
filterVars == <<filter, added, excluded>>

\* Goroutines calling the live PathProbabilities: the admin handlers that
\* list, set and clear, a request handler that gets, and the trainer, which
\* logs ListForPaths. The mutex counts its read holders and tells whether a
\* writer holds it and whether a writer has announced itself and waits for
\* the readers to leave.
Callers == {"list", "set", "clear", "get", "listForPaths"}
ProbabilitiesInit ==
  /\ probabilitiesMux = [readers |-> 0, writer |-> FALSE, pending |-> FALSE]
  /\ probabilitiesMap = 1
  /\ listed = 0
  /\ callerPc = [c \in Callers |-> "idle"]
configVars == <<defaultDimmingMode, isProfilingEnabled, paths>>
trainerVars == <<candidatePathProbabilities, controlGroupResponseTimes,
                 candidateGroupResponseTimes, trainerLoopStarted,
                 trainerStopClosed, trainerPc, trainerGen,
                 isInAdjustmentPeriod, newCandidateRules, lastPathIndexSampled>>
serverVars == <<dimmingMode, pathProbabilities, offlineResponseTimes,
                isStarted, externalOperationsLock, proxying>>
callVars == <<sdmPc, sdmNew, lastCall, listenRet, calls>>
serverSide == <<serverVars, trainerVars, profVars, probabilitiesVars, filterVars, configVars, callVars, lastReq>>

vars == <<loopVars, loopHist, serverSide>>

NoCall == [api |-> "", newMode |-> "", modeBefore |-> "", wasStarted |-> FALSE,
           ret |-> "none", cleared |-> FALSE]

\* NewServer, NewOnlineTraining and main's wiring, for a default mode, a
\* profiling switch, the path list `ps` handed to NewOnlineTraining and the
\* aggregator `agg` of the profiler.
ServerInitWith(defaultMode, profilingEnabled, ps, agg) ==
  /\ FilterInit
  /\ ProbabilitiesInit
  /\ setSinceClear = {}
  /\ dimmingMode = defaultMode
  /\ defaultDimmingMode = defaultMode
  /\ isProfilingEnabled = profilingEnabled
  /\ pathProbabilities = NewPathProbabilities(Scale)
  /\ offlineResponseTimes = <<>>
  /\ isStarted = FALSE
  /\ externalOperationsLock = FALSE
  /\ proxying = [server |-> 0, proxy |-> 0]
  /\ paths = ps
  /\ candidatePathProbabilities =
       NewCandidatePathProbabilities(NewPathProbabilities(Scale), ps, Scale)
  /\ controlGroupResponseTimes = <<>>
  /\ candidateGroupResponseTimes = <<>>
  /\ trainerLoopStarted = FALSE
  /\ trainerStopClosed = FALSE
  /\ trainerPc = "unborn"
  /\ trainerGen = 0
  /\ isInAdjustmentPeriod = FALSE
  /\ newCandidateRules = <<>>
  /\ lastPathIndexSampled = Len(ps) - 1
  /\ lowCount = 0
  /\ highCount = 0
  /\ aggregator = agg
  /\ sdmPc = "idle"
  /\ sdmNew = defaultMode
  /\ lastCall = NoCall
  /\ listenRet = <<>>
  /\ calls = 0
  /\ lastReq = NoRequest

\* main's wiring: the trainer is built with initPaths().
ServerInit(defaultMode, profilingEnabled) ==
  ServerInitWith(defaultMode, profilingEnabled, InitialPaths, NewProfiledRequestAggregator)

\* ------------------------------------- specification of the control loop
\* Start, Reset and the loop goroutines step by step, with handlers adding
\* response times; the server around the loop stands still.
InitLoop == LoopInit /\ ServerInit(Dimming, FALSE)

NextLoop ==
  \/ ControlLoopStart /\ UNCHANGED serverSide
  \/ ResetClose /\ UNCHANGED serverSide
  \/ ResetWait /\ UNCHANGED serverSide
  \/ ResetCollector /\ UNCHANGED serverSide
  \/ ResetPid /\ UNCHANGED serverSide
  \/ ResetPercentage /\ UNCHANGED serverSide
  \/ ResetRestart /\ UNCHANGED serverSide
  \/ \E g \in Gens : LoopTick(g) /\ UNCHANGED serverSide
  \/ \E g \in Gens : LoopPid(g) /\ UNCHANGED serverSide
  \/ \E g \in Gens : LoopWrite(g) /\ UNCHANGED serverSide
  \/ \E g \in Gens : LoopStop(g) /\ UNCHANGED serverSide
  \/ \E t \in Durations : addResponseTime(t) /\ UNCHANGED serverSide

SpecLoop == InitLoop /\ [][NextLoop]_vars

\* ------------------------------------------------------ Server, trainer
\* Frames of the actions below.
loopIds == <<loopStop, closedChans, loopWaiter, waiterCount, loopPc, loopInput,
             loopOutput, resetPc>>
trainerLocals == <<trainerPc, isInAdjustmentPeriod, newCandidateRules,
                   lastPathIndexSampled>>

\* What listenRet records of one ListenAndServe invocation.
ListenResult(ret, before, after, startCalled) ==
  [ret |-> ret, before |-> before, after |-> after, startCalled |-> startCalled]

\* ListenAndServe: if s.isStarted
M_ServerAlreadyStarted == FALSE
ServerAlreadyStarted == isStarted

\* Server.ListenAndServe up to the blocking fasthttp ListenAndServe; k is
\* the id given to the proxy and server objects it creates.
ListenAndServe ==
  LET k == Len(listenRet) + 1 IN
  /\ Len(listenRet) < MaxListenCalls
  /\ ~externalOperationsLock                  \* Lock() returns
  /\ IF ServerAlreadyStarted
       THEN /\ externalOperationsLock' = TRUE  \* returns holding the lock
            /\ listenRet' = Append(listenRet,
                 ListenResult("server already started", proxying, proxying, FALSE))
            /\ UNCHANGED <<proxying, isStarted, loopStarted, loopStop,
                           loopWaiter, waiterCount, loopPc, loopRet>>
       ELSE /\ proxying' = [server |-> k, proxy |-> k]
            /\ isStarted' = TRUE
            /\ IF loopStarted
                 THEN /\ externalOperationsLock' = TRUE  \* returns holding the lock
                      /\ loopRet' = "already started"
                      /\ listenRet' = Append(listenRet,
                           ListenResult("control loop already started",
                                        proxying, proxying', TRUE))
                      /\ UNCHANGED <<loopStarted, loopStop, loopWaiter,
                                     waiterCount, loopPc>>
                 ELSE /\ SpawnControlLoop(1)
                      /\ loopStarted' = TRUE
                      /\ loopRet' = "ok"
                      /\ externalOperationsLock' = FALSE  \* Unlock()
                      /\ listenRet' = Append(listenRet,
                           ListenResult("serving", proxying, proxying', TRUE))
  /\ UNCHANGED <<closedChans, loopInput, loopOutput, responseTimeCollector,
                 pid, now, dimmingPercentage, resetPc, resetsReturned,
                 resetsZeroed, lastWrite, lastAggregate, lastPidCall,
                 pidCallsSinceReset>>
  /\ UNCHANGED <<dimmingMode, pathProbabilities, offlineResponseTimes,
                 trainerVars, profVars, probabilitiesVars, filterVars, configVars, sdmPc, sdmNew, lastCall,
                 calls, lastReq>>

\* The fasthttp server of the first invocation is serving requests.
Serving == Len(listenRet) >= 1 /\ listenRet[1].ret = "serving"

\* SetDimmingMode on a server that is not running: the error return.
M_SetDimmingModeNotRunning(newMode) == dimmingMode' = newMode
SetDimmingModeNotRunning(newMode) == dimmingMode' = dimmingMode

\* SetDimmingMode: if s.dimmingMode == DimmingWithOnlineTraining
LeavesOnlineTraining == dimmingMode = DimmingWithOnlineTraining

\* SetDimmingMode: if newMode == DimmingWithOnlineTraining
M_EntersOnlineTraining(newMode) == TRUE
EntersOnlineTraining(newMode) == newMode = DimmingWithOnlineTraining

\* What lastCall records when a call starts.
CallOf(api, newMode, ret) ==
  [api |-> api, newMode |-> newMode, modeBefore |-> dimmingMode,
   wasStarted |-> isStarted, ret |-> ret, cleared |-> FALSE]

\* Server.SetDimmingMode(newMode), called for the set-mode request `api`
\* ("" for a direct call): from Lock() to the close(t.loopStop) of StopLoop,
\* or to the point before ResetCollector when the trainer is not stopped.
SetDimmingModeCall(newMode, api) ==
  /\ sdmPc = "idle"
  /\ ~externalOperationsLock                  \* Lock() returns
  /\ calls < MaxCalls
  /\ EntersOnlineTraining(newMode) => trainerGen < MaxTrainerStarts
  /\ calls' = calls + 1
  /\ sdmNew' = newMode
  /\ IF ~isStarted
       THEN /\ SetDimmingModeNotRunning(newMode)
            /\ lastCall' = CallOf(api, newMode, "server is not running")
            /\ UNCHANGED <<sdmPc, externalOperationsLock, trainerStopClosed>>
     ELSE IF LeavesOnlineTraining /\ ~trainerLoopStarted
       THEN /\ lastCall' = CallOf(api, newMode, "training loop not running")
            /\ UNCHANGED <<dimmingMode, sdmPc, externalOperationsLock,
                           trainerStopClosed>>
     ELSE /\ lastCall' = CallOf(api, newMode, "pending")
          /\ externalOperationsLock' = TRUE
          /\ trainerStopClosed' = (trainerStopClosed \/ LeavesOnlineTraining)
          /\ sdmPc' = IF LeavesOnlineTraining THEN "stopWait" ELSE "reset"
          /\ UNCHANGED dimmingMode
  /\ UNCHANGED <<loopVars, loopHist, profVars, probabilitiesVars, filterVars, configVars, lastReq, listenRet>>
  /\ UNCHANGED <<pathProbabilities, offlineResponseTimes, isStarted, proxying>>
  /\ UNCHANGED <<candidatePathProbabilities, controlGroupResponseTimes,
                 candidateGroupResponseTimes, trainerLoopStarted, trainerGen,
                 trainerLocals>>

\* StopLoop: t.loopWaiter.Wait() returns once trainingLoop has run its
\* deferred Done.
M_TrainerWaitReturns == TRUE
TrainerWaitReturns == trainerPc = "exited"

\* StopLoop after close(t.loopStop): loopWaiter.Wait() returns once the
\* trainer goroutine has exited; the cohort collectors are reset.
SetDimmingModeStopLoop ==
  /\ sdmPc = "stopWait"
  /\ TrainerWaitReturns
  /\ candidateGroupResponseTimes' = <<>>
  /\ controlGroupResponseTimes' = <<>>
  /\ trainerLoopStarted' = FALSE
  /\ sdmPc' = "reset"
  /\ UNCHANGED <<loopVars, loopHist, profVars, probabilitiesVars, filterVars, configVars, lastReq, listenRet>>
  /\ UNCHANGED <<serverVars, sdmNew, lastCall, calls>>
  /\ UNCHANGED <<candidatePathProbabilities, trainerStopClosed, trainerGen,
                 trainerLocals>>

\* SetDimmingMode from offlineTraining.ResetCollector() to its return:
\* ControlLoop.Reset() (ResetClose .. ResetRestart in one step, the loop
\* goroutine being joined at its select; the goroutine it starts takes the
\* place of the one it joined), StartLoop, the assignment of the mode and the
\* deferred Unlock().
SetDimmingModeFinish ==
  /\ sdmPc = "reset"
  /\ loopStarted => loopPc[loopStop] = "select"
  /\ offlineResponseTimes' = <<>>
  /\ sdmPc' = "idle"
  /\ externalOperationsLock' = FALSE
  /\ IF ~loopStarted
       THEN /\ lastCall' = [lastCall EXCEPT !.ret = "control loop not running",
                                            !.cleared = offlineResponseTimes # <<>>]
            /\ UNCHANGED <<responseTimeCollector, pid, dimmingPercentage,
                           dimmingMode, trainerLoopStarted, trainerStopClosed,
                           trainerPc, trainerGen, isInAdjustmentPeriod>>
     ELSE /\ responseTimeCollector' = <<>>
          /\ pid' = PidZero
          /\ dimmingPercentage' = 0
          /\ IF EntersOnlineTraining(sdmNew) /\ trainerLoopStarted
               THEN /\ lastCall' = [lastCall EXCEPT
                                      !.ret = "training loop already started",
                                      !.cleared = TRUE]
                    /\ UNCHANGED <<dimmingMode, trainerLoopStarted,
                                   trainerStopClosed, trainerPc, trainerGen,
                                   isInAdjustmentPeriod>>
               ELSE /\ IF EntersOnlineTraining(sdmNew)
                         THEN /\ trainerStopClosed' = FALSE
                              /\ trainerPc' = "select"
                              /\ trainerGen' = trainerGen + 1
                              /\ isInAdjustmentPeriod' = TRUE
                              /\ trainerLoopStarted' = TRUE
                         ELSE UNCHANGED <<trainerLoopStarted, trainerStopClosed,
                                          trainerPc, trainerGen,
                                          isInAdjustmentPeriod>>
                    /\ dimmingMode' = sdmNew
                    /\ lastCall' = [lastCall EXCEPT
                         !.ret = "ok",
                         !.cleared = \/ responseTimeCollector # <<>>
                                     \/ pid # PidZero
                                     \/ dimmingPercentage # 0
                                     \/ offlineResponseTimes # <<>>]
  /\ UNCHANGED <<loopStarted, loopIds, now>>
  /\ UNCHANGED <<loopHist, profVars, probabilitiesVars, filterVars, configVars, lastReq, listenRet, sdmNew,
                 calls>>
  /\ UNCHANGED <<pathProbabilities, isStarted, proxying>>
  /\ UNCHANGED <<candidatePathProbabilities, controlGroupResponseTimes,
                 candidateGroupResponseTimes, newCandidateRules,
                 lastPathIndexSampled>>

\* Mode names of the admin API's set-mode request.
ModeNames == {"Default", "Disabled", "OfflineTraining", "Dimming",
              "DimmingWithProfiling", "DimmingWithOnlineTraining"}

\* The names setServerModeHandler's switch has a case for.
SwitchCases == {"Default", "Disabled", "OfflineTraining", "Dimming",
                "DimmingWithOnlineTraining"}

\* The mode a mode name stands for.
ModeOfName(name) == IF name = "Default" THEN defaultDimmingMode ELSE name

\* APIServer.setServerModeHandler for the body {"Mode": name}.
setServerModeHandler(name) ==
  IF name \in SwitchCases
    THEN SetDimmingModeCall(ModeOfName(name), name)
    ELSE /\ sdmPc = "idle"
         /\ calls < MaxCalls
         /\ calls' = calls + 1
         /\ lastCall' = CallOf(name, name, "mode must be one of")
         /\ UNCHANGED <<loopVars, loopHist, serverVars, trainerVars, profVars, probabilitiesVars, filterVars,
                        configVars, sdmPc, sdmNew, listenRet, lastReq>>

\* trainingLoop: case <-t.loopStop: return, at either select; the deferred
\* loopWaiter.Done() lets StopLoop's Wait() return.
TrainerStop ==
  /\ trainerPc \in {"select", "waiting"}
  /\ trainerStopClosed
  /\ trainerPc' = "exited"
  /\ UNCHANGED <<loopVars, loopHist, serverVars, profVars, probabilitiesVars, filterVars, configVars,
                 callVars, lastReq>>
  /\ UNCHANGED <<candidatePathProbabilities, controlGroupResponseTimes,
                 candidateGroupResponseTimes, trainerLoopStarted,
                 trainerStopClosed, trainerGen, isInAdjustmentPeriod,
                 newCandidateRules, lastPathIndexSampled>>

\* trainingLoop, default case in the adjustment period: skip one iteration.
TrainerSkip ==
  /\ trainerPc = "select"
  /\ ~trainerStopClosed
  /\ isInAdjustmentPeriod
  /\ isInAdjustmentPeriod' = FALSE
  /\ UNCHANGED <<loopVars, loopHist, serverVars, profVars, probabilitiesVars, filterVars, configVars,
                 callVars, lastReq>>
  /\ UNCHANGED <<candidatePathProbabilities, controlGroupResponseTimes,
                 candidateGroupResponseTimes, trainerLoopStarted,
                 trainerStopClosed, trainerPc, trainerGen, newCandidateRules,
                 lastPathIndexSampled>>

\* trainingLoop, default case outside the adjustment period: sample new
\* candidate rules, install them, reset both cohort collectors and start
\* waiting for the A/B window.
SampleWindow(draw) ==
  /\ trainerPc = "select"
  /\ ~trainerStopClosed
  /\ ~isInAdjustmentPeriod
  /\ Len(paths) > 0
  /\ newCandidateRules' = sampleCandidateGroupProbabilities(draw)
  /\ lastPathIndexSampled' = nextIndexToSample
  /\ candidatePathProbabilities' =
       SetAll(Clear(candidatePathProbabilities), newCandidateRules')
  /\ candidateGroupResponseTimes' = <<>>
  /\ controlGroupResponseTimes' = <<>>
  /\ trainerPc' = "waiting"
  /\ UNCHANGED <<loopVars, loopHist, serverVars, profVars, probabilitiesVars, filterVars, configVars,
                 lastReq>>
  /\ UNCHANGED <<trainerLoopStarted, trainerStopClosed, trainerGen,
                 isInAdjustmentPeriod>>

TrainerSample(draw) == SampleWindow(draw) /\ UNCHANGED callVars

\* trainingLoop on a significant reduction:
\* t.controlPathProbabilities.SetAll(newCandidateRules)
Promoted(control, rules) == SetAll(control, rules)

\* trainingLoop, case <-time.After(2 * time.Minute): evaluate the window and
\* promote the candidate rules when they improve the response times.
EvaluateWindow ==
  /\ trainerPc = "waiting"
  /\ trainerPc' = "select"
  /\ IF checkCandidateImprovesResponseTimes
       THEN /\ pathProbabilities' = Promoted(pathProbabilities, newCandidateRules)
            /\ setSinceClear' = setSinceClear \cup StoredPaths(newCandidateRules)
            /\ isInAdjustmentPeriod' = TRUE
       ELSE UNCHANGED <<pathProbabilities, setSinceClear, isInAdjustmentPeriod>>
  /\ UNCHANGED <<loopVars, loopHist, profVars, probabilitiesLocks, filterVars, configVars, lastReq>>
  /\ UNCHANGED <<dimmingMode, offlineResponseTimes, isStarted,
                 externalOperationsLock, proxying>>
  /\ UNCHANGED <<candidatePathProbabilities, controlGroupResponseTimes,
                 candidateGroupResponseTimes, trainerLoopStarted,
                 trainerStopClosed, trainerGen, newCandidateRules,
                 lastPathIndexSampled>>

TrainerEvaluate == EvaluateWindow /\ UNCHANGED callVars

\* One iteration of controlLoop on a tick (LoopTick, LoopPid and LoopWrite
\* in one step).
ControlLoopIteration ==
  /\ loopStarted
  /\ now < MaxTime
  /\ now' = now + 1
  /\ pid' = PidOutput(pid, ChosenPercentile(Aggregate(responseTimeCollector)), now')
  /\ dimmingPercentage' = pid'.lastOutput
  /\ UNCHANGED <<loopStarted, loopIds, responseTimeCollector>>
  /\ UNCHANGED <<loopHist, serverSide>>

\* Requests: fasthttp's path, method and Referer, and the cookies. "" is an
\* absent cookie.
Requests ==
  [path : {<<"/", "cart">>, <<"/", "news", ".html">>, <<"/", "other">>},
   method : {"GET"},
   referer : {<<>>, <<"shop", "basket">>},
   session : {"", "s1"},
   priority : {"", "low", "high", "unknown"},
   decision : {"", "true", "false", "bogus"},
   training : {"", "CONTROL", "CANDIDATE"}]

\* The requests the running server is sent: GET /cart without a session,
\* carrying the candidate group's training cookie.
ServedRequests ==
  {r \in Requests : /\ r.path = <<"/", "cart">>
                    /\ r.referer = <<>>
                    /\ r.session = ""
                    /\ r.priority = ""
                    /\ r.decision = ""
                    /\ r.training = "CANDIDATE"}

\* The backend of the running server is slow: every call takes 3 s.
ServedDurations == {3000}

\* Server.requestHandler on a request of the running server.
ServeRequest(req, rollDim, rollPath, duration) ==
  /\ Serving
  /\ RequestEffects(req, rollDim, 0, rollPath, duration)
  /\ UNCHANGED <<loopStarted, loopIds, pid, now, dimmingPercentage>>
  /\ UNCHANGED <<loopHist, profVars, probabilitiesVars, filterVars, configVars, callVars, lastReq>>
  /\ UNCHANGED <<dimmingMode, pathProbabilities, isStarted,
                 externalOperationsLock, proxying>>
  /\ UNCHANGED <<candidatePathProbabilities, trainerLoopStarted,
                 trainerStopClosed, trainerPc, trainerGen,
                 isInAdjustmentPeriod, newCandidateRules, lastPathIndexSampled>>

\* -------------------------------------------- specification of the server
\* NewServer: the default mode is Dimming when dimming is enabled in the
\* configuration, else Disabled; profiling is disabled as by default.
Init ==
  \E defaultMode \in {Disabled, Dimming} :
    LoopInit /\ ServerInit(defaultMode, FALSE)

Next ==
  \/ ListenAndServe
  \/ \E newMode \in Modes : SetDimmingModeCall(newMode, "")
  \/ \E name \in ModeNames : setServerModeHandler(name)
  \/ SetDimmingModeStopLoop
  \/ SetDimmingModeFinish
  \/ TrainerStop
  \/ TrainerSkip
  \/ \E draw \in ProbabilityDraws : TrainerSample(draw)
  \/ TrainerEvaluate
  \/ ControlLoopIteration
  \/ \E req \in ServedRequests, rollDim \in Rolls, rollPath \in Rolls,
        duration \in ServedDurations : ServeRequest(req, rollDim, rollPath, duration)

Spec == Init /\ [][Next]_vars

\* ------------------------------------------ specification of the handler
\* Dimming percentages, path probabilities and aggregator counts of the
\* serving states explored.
Percentages == {0, 50 * Scale}
Probabilities == {0, 500, 1000}
Counts == {<<0, 0>>, <<2, 1>>}

\* PathProbabilities after Set has stored `probability` for every path.
ProbabilitiesAll(probability) ==
  SetAll(NewPathProbabilities(Scale),
         [i \in DOMAIN InitialPaths |->
            [Path |-> InitialPaths[i], Probability |-> probability]])

\* A serving server: ListenAndServe has started the control loop, the mode
\* is `mode` (set by SetDimmingMode), the PID has produced `percentage`,
\* the operator has set the path probabilities and the aggregator has
\* counted `counts` requests.
ServingState(mode, profilingEnabled, percentage, live, cand, counts) ==
  /\ FilterInit
  /\ ProbabilitiesInit
  /\ setSinceClear = Range(InitialPaths)
  /\ loopStarted = TRUE
  /\ loopStop = 1
  /\ closedChans = {}
  /\ loopWaiter = 1
  /\ waiterCount = [g \in Gens |-> IF g = 1 THEN 1 ELSE 0]
  /\ loopPc = [g \in Gens |-> IF g = 1 THEN "select" ELSE "unborn"]
  /\ loopInput = [g \in Gens |-> 0]
  /\ loopOutput = [g \in Gens |-> 0]
  /\ responseTimeCollector = <<>>
  /\ pid = [PidZero EXCEPT !.lastOutput = percentage, !.lastTick = 1]
  /\ now = 1
  /\ dimmingPercentage = percentage
  /\ resetPc = "idle"
  /\ loopRet = "ok"
  /\ resetsReturned = 0
  /\ resetsZeroed = 0
  /\ lastWrite = [gen |-> 0, zeroed |-> 0]
  /\ lastAggregate = [gen |-> 0, stale |-> FALSE]
  /\ lastPidCall = [gen |-> 0, first |-> FALSE, fromZero |-> FALSE]
  /\ pidCallsSinceReset = 0
  /\ dimmingMode = mode
  /\ defaultDimmingMode = Dimming
  /\ isProfilingEnabled = profilingEnabled
  /\ pathProbabilities = ProbabilitiesAll(live)
  /\ offlineResponseTimes = <<>>
  /\ isStarted = TRUE
  /\ externalOperationsLock = FALSE
  /\ proxying = [server |-> 1, proxy |-> 1]
  /\ paths = InitialPaths
  /\ candidatePathProbabilities = ProbabilitiesAll(cand)
  /\ controlGroupResponseTimes = <<>>
  /\ candidateGroupResponseTimes = <<>>
  /\ trainerLoopStarted = (mode = DimmingWithOnlineTraining)
  /\ trainerStopClosed = FALSE
  /\ trainerGen = IF mode = DimmingWithOnlineTraining THEN 1 ELSE 0
  /\ newCandidateRules = <<>>
  /\ lastPathIndexSampled = 0
  /\ lowCount = counts[1]
  /\ highCount = counts[2]
  /\ aggregator = NewProfiledRequestAggregator
  /\ sdmPc = "idle"
  /\ sdmNew = mode
  /\ lastCall = NoCall
  /\ listenRet = <<ListenResult("serving", 0, 1, TRUE)>>
  /\ calls = 0
  /\ lastReq = NoRequest

\* The serving states a request is handled in: the trainer, when it runs, is
\* inside an A/B window.
ServingInit(mode, profilingEnabled, percentage, live, cand, counts) ==
  /\ ServingState(mode, profilingEnabled, percentage, live, cand, counts)
  /\ trainerPc = IF mode = DimmingWithOnlineTraining THEN "waiting" ELSE "unborn"
  /\ isInAdjustmentPeriod = FALSE

InitHandler ==
  \E mode \in Modes, profilingEnabled \in BOOLEAN, percentage \in Percentages,
     live \in Probabilities :
    \E cand \in (IF mode = DimmingWithOnlineTraining THEN Probabilities ELSE {live}),
       counts \in (IF mode = DimmingWithProfiling /\ profilingEnabled
                     THEN Counts ELSE {<<0, 0>>}) :
      ServingInit(mode, profilingEnabled, percentage, live, cand, counts)

\* Server.requestHandler on one request; lastReq records the answer.
HandleRequest(req, rollDim, rollPri, rollPath, rollCookie, fetched, duration, backendOk) ==
  /\ RequestEffects(req, rollDim, rollPri, rollPath, duration)
  /\ lastReq' = RequestAnswer(req, rollDim, rollPri, rollPath, rollCookie,
                              fetched, backendOk)
  /\ UNCHANGED <<loopStarted, loopStop, closedChans, loopWaiter, waiterCount,
                 loopPc, loopInput, loopOutput, pid, now, dimmingPercentage,
                 resetPc>>
  /\ UNCHANGED <<loopHist, profVars, probabilitiesVars, filterVars, configVars, callVars>>
  /\ UNCHANGED <<dimmingMode, pathProbabilities, isStarted,
                 externalOperationsLock, proxying>>
  /\ UNCHANGED <<candidatePathProbabilities, trainerLoopStarted,
                 trainerStopClosed, trainerPc, trainerGen,
                 isInAdjustmentPeriod, newCandidateRules, lastPathIndexSampled>>

\* One request is handled in each serving state. The draws and backend
\* answers are those the request can meet; a draw the handler does not make
\* for the request is fixed.
NextHandler ==
  /\ lastReq = NoRequest
  /\ \E req \in Requests,
        rollDim \in (IF dimmingMode \in {Disabled, OfflineTraining} THEN {0} ELSE Rolls),
        rollPath \in (IF dimmingMode = Disabled THEN {0} ELSE Rolls) :
    \E rollPri \in (IF RequestHasPriorityCookie(req) THEN Rolls ELSE {0}),
       rollCookie \in (IF SamplesTrainingCookie(dimmingMode, req) THEN Rolls ELSE {0}),
       fetched \in (IF FetchesPriority(dimmingMode, req) THEN FetchResults ELSE {"error"}),
       duration \in (IF Contains(req.path, <<".html">>) THEN {200} ELSE Durations) :
      \E backendOk \in (IF ShedDecision(dimmingMode, req, rollDim, rollPri,
                                       rollPath).shed
                           THEN {TRUE} ELSE BOOLEAN) :
        HandleRequest(req, rollDim, rollPri, rollPath, rollCookie, fetched,
                      duration, backendOk)

SpecHandler == InitHandler /\ [][NextHandler]_vars

\* ---------------------------------------- specification of the trainer
\* Response times of one cohort during an A/B window: `n` requests that
\* each took `t` milliseconds.
CohortSamples == 6
Sample(t, n) == [i \in 1..n |-> [t |-> t, stale |-> FALSE]]
ControlSamples ==
  {<<>>, Sample(2000, 2), Sample(2000, CohortSamples), Sample(3000, CohortSamples)}
CandidateSamples ==
  {<<>>, Sample(1000, 2), Sample(40, CohortSamples), Sample(1000, CohortSamples),
   Sample(1700, CohortSamples), Sample(2000, CohortSamples)}

\* Rules an operator posts to the admin API while the trainer runs.
UpdateRules ==
  {<< [Path |-> <<"other">>, Probability |-> 250] >>,
   << [Path |-> <<"cart">>, Probability |-> 0],
      [Path |-> <<"news", ".html">>, Probability |-> 0] >>}

\* PathProbabilities.SetAll returns an error: Set rejects one of the rules.
SetAllFails(rules) == \E i \in DOMAIN rules : SetRejects(rules[i])

\* Server.UpdatePathProbabilities: the live probabilities take the rules
\* and, unless SetAll returned an error, the trainer's path list becomes the
\* rules' paths (OnlineTraining.SetPaths).
UpdatePathProbabilities(rules) ==
  /\ calls < MaxCalls
  /\ calls' = calls + 1
  /\ pathProbabilities' = SetAll(pathProbabilities, rules)
  /\ setSinceClear' = setSinceClear \cup StoredPaths(rules)
  /\ paths' = IF SetAllFails(rules) THEN paths
              ELSE [i \in DOMAIN rules |-> rules[i].Path]
  /\ UNCHANGED <<loopVars, loopHist, trainerVars, profVars, probabilitiesLocks, filterVars, lastReq>>
  /\ UNCHANGED <<defaultDimmingMode, isProfilingEnabled>>
  /\ UNCHANGED <<dimmingMode, offlineResponseTimes, isStarted,
                 externalOperationsLock, proxying>>
  /\ UNCHANGED <<sdmPc, sdmNew, lastCall, listenRet>>

\* The requests of one A/B window: AddControlResponseTime and
\* AddCandidateResponseTime once per forwarded request of each cohort.
WindowTraffic(control, candidate) ==
  /\ trainerPc = "waiting"
  /\ controlGroupResponseTimes = <<>>
  /\ candidateGroupResponseTimes = <<>>
  /\ controlGroupResponseTimes' = control
  /\ candidateGroupResponseTimes' = candidate
  /\ UNCHANGED <<loopVars, loopHist, serverVars, profVars, probabilitiesVars, filterVars, configVars,
                 callVars, lastReq>>
  /\ UNCHANGED <<candidatePathProbabilities, trainerLoopStarted,
                 trainerStopClosed, trainerPc, trainerGen,
                 isInAdjustmentPeriod, newCandidateRules, lastPathIndexSampled>>

\* StartLoop has just spawned trainingLoop: the adjustment flag is set, the
\* candidate probabilities are the live ones and both collectors are empty.
InitTrainer ==
  \E live \in Probabilities :
    /\ ServingState(DimmingWithOnlineTraining, FALSE, 0, live, live, <<0, 0>>)
    /\ trainerPc = "select"
    /\ isInAdjustmentPeriod = TRUE

NextTrainer ==
  \/ TrainerSkip
  \/ \E draw \in ProbabilityDraws : TrainerSample(draw)
  \/ \E control \in ControlSamples, candidate \in CandidateSamples :
       WindowTraffic(control, candidate)
  \/ TrainerEvaluate
  \/ \E rules \in UpdateRules : UpdatePathProbabilities(rules)

SpecTrainer == InitTrainer /\ [][NextTrainer]_vars


\* ---------------------------------------- specification of the cookies
\* Requests whose cookies carry the values the server issues, no value, or
\* a value it never issues ("bogus").
CookieRequests ==
  [path : {<<"/", "cart">>, <<"/", "news", ".html">>},
   method : {"GET"},
   referer : {<<>>},
   session : {"", "s1"},
   priority : {"", "unknown", "low", "bogus"},
   decision : {"", "true", "false", "bogus"},
   training : {"", "CONTROL", "CANDIDATE", "bogus"}]

\* Serving states of the two modes that read cookies.
InitCookies ==
  \E mode \in {DimmingWithProfiling, DimmingWithOnlineTraining},
     percentage \in Percentages, live \in Probabilities :
    \E cand \in (IF mode = DimmingWithOnlineTraining THEN Probabilities ELSE {live}),
       counts \in (IF mode = DimmingWithProfiling THEN Counts ELSE {<<0, 0>>}) :
      ServingInit(mode, mode = DimmingWithProfiling, percentage, live, cand, counts)

\* One request with cookies is handled in each serving state.
NextCookies ==
  /\ lastReq = NoRequest
  /\ \E req \in CookieRequests, rollDim \in Rolls, rollPath \in Rolls :
    \E rollPri \in (IF RequestHasPriorityCookie(req) THEN Rolls ELSE {0}),
       rollCookie \in (IF SamplesTrainingCookie(dimmingMode, req) THEN Rolls ELSE {0}),
       fetched \in (IF FetchesPriority(dimmingMode, req) THEN FetchResults ELSE {"error"}) :
      HandleRequest(req, rollDim, rollPri, rollPath, rollCookie, fetched, 3000, TRUE)

SpecCookies == InitCookies /\ [][NextCookies]_vars


\* ------------------------- specification of the shared PathProbabilities
\* Maps the model lets Clear allocate.
MaxMaps == 2

\* Rules the admin API sets.
SetRules == {[Path |-> <<"cart">>, Probability |-> 500],
             [Path |-> <<"other">>, Probability |-> 0]}

\* sync.RWMutex: RLock waits for a writer that holds the lock or has
\* announced itself, Lock for the writer and all readers.
RLock(mux) == [mux EXCEPT !.readers = @ + 1]
RUnlock(mux) == [mux EXCEPT !.readers = @ - 1]
CanRLock == ~probabilitiesMux.writer /\ ~probabilitiesMux.pending
CanLock == ~probabilitiesMux.writer /\ probabilitiesMux.readers = 0

\* The frame of a step of one caller of the live PathProbabilities.
CallerRest ==
  UNCHANGED <<loopVars, loopHist, trainerVars, profVars, filterVars,
              configVars, callVars, lastReq, dimmingMode, offlineResponseTimes, isStarted,
              externalOperationsLock, proxying>>
CallerFrame == CallerRest /\ UNCHANGED setSinceClear

\* PathProbabilities.List: p.probabilitiesMux.RLock()
ListRLock ==
  /\ callerPc["list"] = "idle"
  /\ CanRLock
  /\ probabilitiesMux' = RLock(probabilitiesMux)
  /\ callerPc' = [callerPc EXCEPT !["list"] = "rlocked"]
  /\ UNCHANGED <<pathProbabilities, probabilitiesMap, listed>>
  /\ CallerFrame

\* PathProbabilities.List: return p.probabilities, then the deferred
\* RUnlock. The caller receives the map itself.
ListReturn ==
  /\ callerPc["list"] = "rlocked"
  /\ listed' = probabilitiesMap
  /\ probabilitiesMux' = RUnlock(probabilitiesMux)
  /\ callerPc' = [callerPc EXCEPT !["list"] = "returned"]
  /\ UNCHANGED <<pathProbabilities, probabilitiesMap>>
  /\ CallerFrame

\* listPathProbabilitiesHandler: fmt.Sprintf("%v") starts to read the map.
ListFormatBegin ==
  /\ callerPc["list"] = "returned"
  /\ callerPc' = [callerPc EXCEPT !["list"] = "formatting"]
  /\ UNCHANGED <<pathProbabilities, probabilitiesMux, probabilitiesMap, listed>>
  /\ CallerFrame

\* listPathProbabilitiesHandler: the map is formatted and written out.
ListFormatEnd ==
  /\ callerPc["list"] = "formatting"
  /\ listed' = 0
  /\ callerPc' = [callerPc EXCEPT !["list"] = "idle"]
  /\ UNCHANGED <<pathProbabilities, probabilitiesMux, probabilitiesMap>>
  /\ CallerFrame

\* PathProbabilities.Set: p.probabilitiesMux.Lock()
SetLock ==
  /\ callerPc["set"] = "idle"
  /\ CanLock
  /\ probabilitiesMux' = [probabilitiesMux EXCEPT !.writer = TRUE]
  /\ callerPc' = [callerPc EXCEPT !["set"] = "locked"]
  /\ UNCHANGED <<pathProbabilities, probabilitiesMap, listed>>
  /\ CallerFrame

\* PathProbabilities.Set: the first of the two map assignments begins.
SetStoreBegin ==
  /\ callerPc["set"] = "locked"
  /\ callerPc' = [callerPc EXCEPT !["set"] = "storing"]
  /\ UNCHANGED <<pathProbabilities, probabilitiesMux, probabilitiesMap, listed>>
  /\ CallerFrame

\* PathProbabilities.Set: both assignments are done for the call's rule.
SetStoreEnd(rule) ==
  /\ callerPc["set"] = "storing"
  /\ pathProbabilities' = PathProbabilitiesSet(pathProbabilities, rule)
  /\ setSinceClear' = setSinceClear \cup StoredPaths(<<rule>>)
  /\ callerPc' = [callerPc EXCEPT !["set"] = "stored"]
  /\ UNCHANGED <<probabilitiesMux, probabilitiesMap, listed>>
  /\ CallerRest

\* PathProbabilities.Set: p.probabilitiesMux.Unlock()
SetUnlock ==
  /\ callerPc["set"] = "stored"
  /\ probabilitiesMux' = [probabilitiesMux EXCEPT !.writer = FALSE]
  /\ callerPc' = [callerPc EXCEPT !["set"] = "idle"]
  /\ UNCHANGED <<pathProbabilities, probabilitiesMap, listed>>
  /\ CallerFrame

\* PathProbabilities.Clear: Lock(), then p.probabilities = map[string]float64{}
ClearLock ==
  /\ callerPc["clear"] = "idle"
  /\ probabilitiesMap < MaxMaps
  /\ CanLock
  /\ probabilitiesMux' = [probabilitiesMux EXCEPT !.writer = TRUE]
  /\ callerPc' = [callerPc EXCEPT !["clear"] = "locked"]
  /\ UNCHANGED <<pathProbabilities, probabilitiesMap, listed>>
  /\ CallerFrame

\* PathProbabilities.Clear: the field takes a new, empty map and the lock is
\* released. The old map is not written.
ClearUnlock ==
  /\ callerPc["clear"] = "locked"
  /\ pathProbabilities' = Clear(pathProbabilities)
  /\ probabilitiesMap' = probabilitiesMap + 1
  /\ probabilitiesMux' = [probabilitiesMux EXCEPT !.writer = FALSE]
  /\ setSinceClear' = {}
  /\ callerPc' = [callerPc EXCEPT !["clear"] = "idle"]
  /\ UNCHANGED listed
  /\ CallerRest

\* PathProbabilities.Get: RLock(), and the map lookup begins.
GetRLock ==
  /\ callerPc["get"] = "idle"
  /\ CanRLock
  /\ probabilitiesMux' = RLock(probabilitiesMux)
  /\ callerPc' = [callerPc EXCEPT !["get"] = "reading"]
  /\ UNCHANGED <<pathProbabilities, probabilitiesMap, listed>>
  /\ CallerFrame

\* PathProbabilities.Get: the lookup is done, RUnlock().
GetRUnlock ==
  /\ callerPc["get"] = "reading"
  /\ probabilitiesMux' = RUnlock(probabilitiesMux)
  /\ callerPc' = [callerPc EXCEPT !["get"] = "idle"]
  /\ UNCHANGED <<pathProbabilities, probabilitiesMap, listed>>
  /\ CallerFrame

\* A serving server in mode Dimming with the operator's probabilities.
InitProbabilities ==
  \E live \in Probabilities :
    ServingInit(Dimming, FALSE, 0, live, live, <<0, 0>>)

NextProbabilities ==
  \/ ListRLock
  \/ ListReturn
  \/ ListFormatBegin
  \/ ListFormatEnd
  \/ SetLock
  \/ SetStoreBegin
  \/ \E rule \in SetRules : SetStoreEnd(rule)
  \/ SetUnlock
  \/ ClearLock
  \/ ClearUnlock
  \/ GetRLock
  \/ GetRUnlock

SpecProbabilities == InitProbabilities /\ [][NextProbabilities]_vars


\* ------------------------------------------ specification of the PID
\* The controller alone, called at any instants of a millisecond clock
\* (`now` and pid.lastTick in milliseconds) with any inputs, and reset.
MaxPidTime == 3000
MaxPidCalls == 3
PidInputs == {0, 3000, 30000}
PidDelays == {0, 400, 1000, 1500}

\* c.Output(input) after the clock has advanced by `delay`; loopInput and
\* loopOutput record the input and the value returned.
PidCall(input, delay) ==
  /\ pidCallsSinceReset < MaxPidCalls
  /\ now + delay <= MaxPidTime
  /\ now' = now + delay
  /\ pid' = PidOutputAt(pid, input, now')
  /\ loopInput' = [loopInput EXCEPT ![1] = input]
  /\ loopOutput' = [loopOutput EXCEPT ![1] = pid'.lastOutput]
  /\ pidCallsSinceReset' = pidCallsSinceReset + 1
  /\ UNCHANGED <<loopStarted, loopStop, closedChans, loopWaiter, waiterCount,
                 loopPc, responseTimeCollector, dimmingPercentage, resetPc>>
  /\ UNCHANGED <<loopRet, resetsReturned, resetsZeroed, lastWrite,
                 lastAggregate, lastPidCall>>
  /\ UNCHANGED serverSide

\* c.Reset()
PidReset ==
  /\ resetsReturned < MaxResets
  /\ pidCallsSinceReset > 0
  /\ pid' = PidZero
  /\ resetsReturned' = resetsReturned + 1
  /\ pidCallsSinceReset' = 0
  /\ UNCHANGED <<loopStarted, loopStop, closedChans, loopWaiter, waiterCount,
                 loopPc, loopInput, loopOutput, responseTimeCollector, now,
                 dimmingPercentage, resetPc>>
  /\ UNCHANGED <<loopRet, resetsZeroed, lastWrite, lastAggregate, lastPidCall>>
  /\ UNCHANGED serverSide

\* NewPIDController has returned; the clock reads 1 ms.
InitPid == InitLoop

NextPid ==
  \/ \E input \in PidInputs, delay \in PidDelays : PidCall(input, delay)
  \/ PidReset

SpecPid == InitPid /\ [][NextPid]_vars


\* ------------------------------------------ specification of the filter
\* A filter is configured by at most MaxFilterCalls calls of AddPath and
\* AddRefererExclusion.
MaxFilterCalls == 3
Methods == {"GET", "POST"}
AddedPaths == {<<"cart">>, <<"/", "cart">>}
Substrings == {<<"basket">>, <<"home">>}

\* Paths and referers of the requests matched against the filter.
MatchedPaths ==
  {<<"cart">>, <<"/", "cart">>, <<"/", "/", "cart">>, <<"/", "cart", "?x">>}
Referers == {<<>>, <<"shop", "basket">>, <<"home">>}

FilterFrame ==
  UNCHANGED <<loopVars, loopHist, serverVars, trainerVars, profVars,
              probabilitiesVars, configVars, sdmPc, sdmNew, lastCall,
              listenRet, lastReq>>

\* r.AddPath(path, method)
FilterAddPath(path, method) ==
  /\ calls < MaxFilterCalls
  /\ calls' = calls + 1
  /\ filter' = AddPath(filter, path, method)
  /\ added' = added \cup {<<path, method>>}
  /\ UNCHANGED excluded
  /\ FilterFrame

\* r.AddRefererExclusion(path, method, substring); it returns an error and
\* registers nothing when the rule does not exist.
FilterAddRefererExclusion(path, method, substring) ==
  /\ calls < MaxFilterCalls
  /\ calls' = calls + 1
  /\ filter' = AddRefererExclusion(filter, path, method, substring)
  /\ excluded' =
       IF toRequestFilterRule(prependLeadingSlashIfMissing(path), method)
            \in filter.rules
         THEN excluded \cup {<<path, method, substring>>}
         ELSE excluded
  /\ UNCHANGED added
  /\ FilterFrame

InitFilter == InitLoop

NextFilter ==
  \/ \E path \in AddedPaths, method \in Methods : FilterAddPath(path, method)
  \/ \E path \in AddedPaths, method \in Methods, substring \in Substrings :
       FilterAddRefererExclusion(path, method, substring)

SpecFilter == InitFilter /\ [][NextFilter]_vars


\* ------------------------------------ specification of a PathProbabilities
\* Calls the model makes on the table.
MaxTableCalls == 3

\* Default values, rules and paths of the calls; -1 and Scale + 1 are
\* probabilities outside [0, 1].
TableDefaults == {0 - 1, 0, 500, Scale + 1}
TablePaths == {<<"cart">>, <<"/", "cart">>, <<"/", "/", "cart">>}
TableProbabilities == {0 - 1, 500, Scale, Scale + 1}
TableRules == [Path : TablePaths, Probability : TableProbabilities]
QueryPaths == TablePaths \cup {<<"other">>}

TableFrame ==
  UNCHANGED <<loopVars, loopHist, trainerVars, profVars, probabilitiesLocks,
              filterVars, configVars, lastReq, dimmingMode,
              offlineResponseTimes, isStarted, externalOperationsLock,
              proxying, sdmPc, sdmNew, listenRet>>

TableCall(api, arg, ret) ==
  /\ calls < MaxTableCalls
  /\ calls' = calls + 1
  /\ lastCall' = [api |-> api, arg |-> arg, ret |-> ret, before |-> pathProbabilities]

\* NewPathProbabilities(defaultValue): an error and no table for a default
\* outside [0, 1], a new empty table otherwise.
TableNew(defaultValue) ==
  /\ IF defaultValue < 0 \/ defaultValue > Scale
       THEN /\ TableCall("New", defaultValue, "error")
            /\ UNCHANGED <<pathProbabilities, setSinceClear>>
       ELSE /\ TableCall("New", defaultValue, "nil")
            /\ pathProbabilities' = NewPathProbabilities(defaultValue)
            /\ setSinceClear' = {}
  /\ TableFrame

\* p.Set(rule)
TableSet(rule) ==
  /\ TableCall("Set", rule, IF SetRejects(rule) THEN "error" ELSE "nil")
  /\ pathProbabilities' = PathProbabilitiesSet(pathProbabilities, rule)
  /\ setSinceClear' = setSinceClear \cup StoredPaths(<<rule>>)
  /\ TableFrame

\* p.Clear()
TableClear ==
  /\ TableCall("Clear", <<>>, "nil")
  /\ pathProbabilities' = Clear(pathProbabilities)
  /\ setSinceClear' = {}
  /\ TableFrame

\* p.Get(path)
TableGet(path) ==
  /\ TableCall("Get", path, Get(pathProbabilities, path))
  /\ UNCHANGED <<pathProbabilities, setSinceClear>>
  /\ TableFrame

InitTable == InitLoop

NextTable ==
  \/ \E defaultValue \in TableDefaults : TableNew(defaultValue)
  \/ \E rule \in TableRules : TableSet(rule)
  \/ TableClear
  \/ \E path \in QueryPaths : TableGet(path)

SpecTable == InitTable /\ [][NextTable]_vars


\* ---------------- specification of Start, Reset, StartLoop and StopLoop
\* Direct calls by one caller on the control loop and on the trainer, in any
\* order, with the goroutines they start running in between.
MaxStartStopCalls == 4

\* A direct call is made when the caller is in no other call: Reset is at
\* rest and no StopLoop waits for the trainer.
StopLoopWaits == trainerLoopStarted /\ trainerStopClosed
CallerAtRest == resetPc = "idle" /\ ~StopLoopWaits

DirectCall(api, ret) ==
  /\ CallerAtRest
  /\ calls < MaxStartStopCalls
  /\ calls' = calls + 1
  /\ lastCall' = [api |-> api, ret |-> ret]

StartStopRest ==
  UNCHANGED <<serverVars, profVars, probabilitiesVars, filterVars,
              configVars, sdmPc, sdmNew, listenRet, lastReq>>

\* c.Start()
DirectStart ==
  /\ ControlLoopStart
  /\ DirectCall("ControlLoop.Start", loopRet')
  /\ UNCHANGED trainerVars
  /\ StartStopRest

\* c.Reset() up to close(c.loopStop); ResetWait .. ResetRestart follow.
DirectReset ==
  /\ ResetClose
  /\ DirectCall("ControlLoop.Reset", loopRet')
  /\ UNCHANGED trainerVars
  /\ StartStopRest

\* StartLoop, StopLoop: if t.loopStarted
M_TrainerLoopStarted == FALSE
TrainerLoopStarted == trainerLoopStarted

\* t.StartLoop()
DirectStartLoop ==
  /\ IF TrainerLoopStarted
       THEN /\ DirectCall("OnlineTraining.StartLoop", "already started")
            /\ UNCHANGED trainerVars
       ELSE /\ trainerGen < MaxTrainerStarts
            /\ DirectCall("OnlineTraining.StartLoop", "ok")
            /\ trainerStopClosed' = FALSE
            /\ trainerPc' = "select"
            /\ trainerGen' = trainerGen + 1
            /\ isInAdjustmentPeriod' = TRUE
            /\ trainerLoopStarted' = TRUE
            /\ UNCHANGED <<candidatePathProbabilities, controlGroupResponseTimes,
                           candidateGroupResponseTimes, newCandidateRules,
                           lastPathIndexSampled>>
  /\ UNCHANGED <<loopVars, loopHist>>
  /\ StartStopRest

\* t.StopLoop() up to close(t.loopStop); TrainerStop and StopLoopReturn
\* follow.
DirectStopLoop ==
  /\ IF ~TrainerLoopStarted
       THEN /\ DirectCall("OnlineTraining.StopLoop", "not running")
            /\ UNCHANGED trainerVars
       ELSE /\ DirectCall("OnlineTraining.StopLoop", "none")
            /\ trainerStopClosed' = TRUE
            /\ UNCHANGED <<candidatePathProbabilities, controlGroupResponseTimes,
                           candidateGroupResponseTimes, trainerLoopStarted,
                           trainerGen, trainerLocals>>
  /\ UNCHANGED <<loopVars, loopHist>>
  /\ StartStopRest

\* StopLoop from t.loopWaiter.Wait() to its return.
StopLoopReturn ==
  /\ StopLoopWaits
  /\ TrainerWaitReturns
  /\ candidateGroupResponseTimes' = <<>>
  /\ controlGroupResponseTimes' = <<>>
  /\ trainerLoopStarted' = FALSE
  /\ UNCHANGED <<candidatePathProbabilities, trainerStopClosed, trainerGen,
                 trainerLocals>>
  /\ UNCHANGED <<loopVars, loopHist, callVars>>
  /\ StartStopRest

InitStartStop == InitLoop

NextStartStop ==
  \/ DirectStart
  \/ DirectReset
  \/ ResetWait /\ UNCHANGED serverSide
  \/ ResetCollector /\ UNCHANGED serverSide
  \/ ResetPid /\ UNCHANGED serverSide
  \/ ResetPercentage /\ UNCHANGED serverSide
  \/ ResetRestart /\ UNCHANGED serverSide
  \/ \E g \in Gens : LoopTick(g) /\ UNCHANGED serverSide
  \/ \E g \in Gens : LoopPid(g) /\ UNCHANGED serverSide
  \/ \E g \in Gens : LoopWrite(g) /\ UNCHANGED serverSide
  \/ \E g \in Gens : LoopStop(g) /\ UNCHANGED serverSide
  \/ addResponseTime(3000) /\ UNCHANGED serverSide
  \/ DirectStartLoop
  \/ DirectStopLoop
  \/ StopLoopReturn
  \/ TrainerStop
  \/ TrainerSkip
  \/ \E draw \in ProbabilityDraws : TrainerSample(draw)
  \/ WindowTraffic(Sample(2000, 2), Sample(1000, 2))

SpecStartStop == InitStartStop /\ [][NextStartStop]_vars


\* --------------------------------------- specification of the KS test
\* Samples of up to MaxKSLen response times, and tests made on one pair.
MaxKSLen == 4
MaxKSCalls == 2
KSTimes == {1000, 2000}
KSSamples == UNION {[1..n -> KSTimes] : n \in 1..MaxKSLen}
Percentiles == DOMAIN coefficients

Collected(ts) == [i \in DOMAIN ts |-> [t |-> ts[i], stale |-> FALSE]]

KSFrame ==
  UNCHANGED <<loopVars, loopHist, serverVars, profVars, probabilitiesVars,
              filterVars, configVars, sdmPc, sdmNew, listenRet, lastReq>>

\* One window's requests have filled the two cohort collectors.
KSCollect(control, candidate) ==
  /\ calls = 0
  /\ calls' = 1
  /\ controlGroupResponseTimes' = Collected(control)
  /\ candidateGroupResponseTimes' = Collected(candidate)
  /\ UNCHANGED <<candidatePathProbabilities, trainerLoopStarted,
                 trainerStopClosed, trainerGen, trainerLocals, lastCall>>
  /\ KSFrame

\* stats.KolmogorovSmirnovTestRejection(control, candidate, percentile)
KSTest(percentile) ==
  /\ calls \in 1..MaxKSCalls
  /\ calls' = calls + 1
  /\ lastCall' =
       [api |-> "KolmogorovSmirnovTestRejection", percentile |-> percentile,
        ret |-> KolmogorovSmirnovTestRejectionAt(
                  Times(controlGroupResponseTimes),
                  Times(candidateGroupResponseTimes), percentile)]
  /\ UNCHANGED trainerVars
  /\ KSFrame

InitKS == InitLoop

NextKS ==
  \/ \E control, candidate \in KSSamples : KSCollect(control, candidate)
  \/ \E percentile \in Percentiles : KSTest(percentile)

SpecKS == InitKS /\ [][NextKS]_vars


\* ------------------------------- specification of the trainer being stopped
\* The trainer of SpecTrainer with its windows, traffic and promotions, and
\* SetDimmingMode calls that stop it, and start it again, at any point.
InitStop == InitTrainer

NextStop ==
  \/ NextTrainer
  \/ TrainerStop
  \/ \E newMode \in {Dimming, DimmingWithOnlineTraining} : SetDimmingModeCall(newMode, "")
  \/ SetDimmingModeStopLoop
  \/ SetDimmingModeFinish

SpecStop == InitStop /\ [][NextStop]_vars


\* --------------- specification of the replacement of the candidate rules
\* The trainer's sampling statement by statement, as far as the lock of the
\* candidate PathProbabilities is released in between, with request handlers
\* of the candidate cohort reading the table at any point.
StoringPc == <<"stored0", "stored1", "stored2">>
RulesStored == CHOOSE k \in 0..2 : trainerPc = StoringPc[k + 1]

ReplaceFrame ==
  UNCHANGED <<loopVars, loopHist, serverVars, profVars, probabilitiesVars,
              filterVars, configVars, sdmPc, sdmNew, listenRet, calls,
              trainerLoopStarted, trainerStopClosed, trainerGen,
              isInAdjustmentPeriod>>

\* trainingLoop: newCandidateRules := t.sampleCandidateGroupProbabilities(),
\* then t.candidatePathProbabilities.Clear(). lastCall keeps the table before
\* the replacement and the one the new rules make.
SampleClear(draw) ==
  /\ trainerPc = "select"
  /\ ~trainerStopClosed
  /\ ~isInAdjustmentPeriod
  /\ Len(paths) > 0
  /\ newCandidateRules' = sampleCandidateGroupProbabilities(draw)
  /\ lastPathIndexSampled' = nextIndexToSample
  /\ candidatePathProbabilities' = Clear(candidatePathProbabilities)
  /\ trainerPc' = StoringPc[1]
  /\ lastCall' = [api |-> "replace",
                  previous |-> candidatePathProbabilities,
                  next |-> SetAll(Clear(candidatePathProbabilities), newCandidateRules')]
  /\ lastReq' = NoRequest
  /\ UNCHANGED <<controlGroupResponseTimes, candidateGroupResponseTimes>>
  /\ ReplaceFrame

\* trainingLoop, t.candidatePathProbabilities.SetAll(newCandidateRules): one
\* Set of the loop of SetAll, from its Lock() to its Unlock().
SampleSet ==
  /\ trainerPc \in Range(StoringPc)
  /\ RulesStored < Len(newCandidateRules)
  /\ candidatePathProbabilities' =
       PathProbabilitiesSet(candidatePathProbabilities,
                            newCandidateRules[RulesStored + 1])
  /\ trainerPc' = StoringPc[RulesStored + 2]
  /\ UNCHANGED <<controlGroupResponseTimes, candidateGroupResponseTimes,
                 newCandidateRules, lastPathIndexSampled, lastCall, lastReq>>
  /\ ReplaceFrame

\* trainingLoop after SetAll: both cohort collectors are reset and the timed
\* wait begins.
SampleFinish ==
  /\ trainerPc \in Range(StoringPc)
  /\ RulesStored = Len(newCandidateRules)
  /\ candidateGroupResponseTimes' = <<>>
  /\ controlGroupResponseTimes' = <<>>
  /\ trainerPc' = "waiting"
  /\ UNCHANGED <<candidatePathProbabilities, newCandidateRules,
                 lastPathIndexSampled, lastCall, lastReq>>
  /\ ReplaceFrame

\* The handler of a request with the candidate cookie in mode
\* DimmingWithOnlineTraining: SampleCandidateGroupShouldDim(path) reads the
\* candidate table under its read lock. lastReq keeps the table it read.
CandidateGet(path) ==
  /\ dimmingMode = DimmingWithOnlineTraining
  /\ lastReq' = [handled |-> TRUE, path |-> path,
                 seen |-> candidatePathProbabilities,
                 probability |-> Get(candidatePathProbabilities, path)]
  /\ UNCHANGED <<candidatePathProbabilities, controlGroupResponseTimes,
                 candidateGroupResponseTimes, trainerLocals, lastCall>>
  /\ ReplaceFrame

InitReplace == InitTrainer

NextReplace ==
  \/ TrainerSkip
  \/ \E draw \in ProbabilityDraws : SampleClear(draw)
  \/ SampleSet
  \/ SampleFinish
  \/ \E path \in Range(InitialPaths) : CandidateGet(path)
  \/ \E control \in ControlSamples, candidate \in CandidateSamples :
       WindowTraffic(control, candidate)
  \/ TrainerEvaluate

SpecReplace == InitReplace /\ [][NextReplace]_vars


\* -------------------------- specification of the trainer's adjustment period
\* The trainer of SpecTrainer from its start, with the control loop ticking
\* beside it. lastCall keeps the clock of the last promotion; the clock
\* advances by one with every tick of the control loop and reads 1 when the
\* trainer starts.
AdjustEvaluate ==
  /\ EvaluateWindow
  /\ lastCall' = IF checkCandidateImprovesResponseTimes
                   THEN [api |-> "promotion", at |-> now]
                   ELSE lastCall
  /\ UNCHANGED <<sdmPc, sdmNew, listenRet, calls>>

InitAdjust == InitTrainer /\ now = 1

NextAdjust ==
  \/ TrainerSkip
  \/ \E draw \in ProbabilityDraws : TrainerSample(draw)
  \/ \E control \in ControlSamples, candidate \in CandidateSamples :
       WindowTraffic(control, candidate)
  \/ AdjustEvaluate
  \/ ControlLoopIteration

SpecAdjust == InitAdjust /\ [][NextAdjust]_vars


\* ------------------------------ specification of the trainer's sampling
\* The trainer is built with a path list, started, and samples window after
\* window while the operator replaces the path list through the admin API.
\* Path lists NewOnlineTraining is given.
SamplingPaths ==
  {<<>>, << <<"cart">> >>, InitialPaths,
   << <<"recommender">>, <<"news">>, <<"cart">> >>}

\* Values SampleTruncatedNormalDistribution(0, 1, mean, 0.5) returns: the
\* quantile of a uniform draw between CDF(0) and CDF(1).
SamplingDraws == {0, 250, Scale}

\* Rule lists the operator posts while the trainer samples.
SamplingRules ==
  {<<>>,
   << [Path |-> <<"news">>, Probability |-> 750] >>,
   << [Path |-> <<"cart">>, Probability |-> 0],
      [Path |-> <<"news">>, Probability |-> 750],
      [Path |-> <<"other">>, Probability |-> 500] >>,
   << [Path |-> <<"cart">>, Probability |-> 250],
      [Path |-> <<"news">>, Probability |-> Scale + 500] >>,
   << [Path |-> <<"other">>, Probability |-> 0 - 1] >>}

\* The last n elements of s.
LastN(s, n) == IF Len(s) <= n THEN s ELSE SubSeq(s, Len(s) - n + 1, Len(s))

\* t.StartLoop() on a trainer that is not running.
SamplingStartLoop == ~trainerLoopStarted /\ DirectStartLoop

\* trainingLoop's sampling iteration; lastCall records the index sampled,
\* the path list it was sampled from, the indices of the latest len(paths)
\* sampling steps on that list, and whether this was the trainer's first
\* sampling step on the list it was built with.
SamplingIteration(draw) ==
  /\ SampleWindow(draw)
  /\ lastCall' =
       [api |-> "sample",
        paths |-> paths,
        index |-> nextIndexToSample,
        recent |-> IF lastCall.api = "sample" /\ lastCall.paths = paths
                     THEN LastN(Append(lastCall.recent, nextIndexToSample), Len(paths))
                     ELSE <<nextIndexToSample>>,
        first |-> lastCall.api = "OnlineTraining.StartLoop" /\ calls = 1]
  /\ UNCHANGED <<sdmPc, sdmNew, listenRet, calls>>

\* trainingLoop's sampling iteration on an empty path list:
\* (t.lastPathIndexSampled + 1) % len(t.paths) divides by zero and the
\* goroutine panics.
SamplePanics ==
  /\ trainerPc = "select"
  /\ ~trainerStopClosed
  /\ ~isInAdjustmentPeriod
  /\ Len(paths) = 0
  /\ trainerPc' = "panicked"
  /\ UNCHANGED <<loopVars, loopHist, serverVars, profVars, probabilitiesVars,
                 filterVars, configVars, callVars, lastReq>>
  /\ UNCHANGED <<candidatePathProbabilities, controlGroupResponseTimes,
                 candidateGroupResponseTimes, trainerLoopStarted,
                 trainerStopClosed, trainerGen, isInAdjustmentPeriod,
                 newCandidateRules, lastPathIndexSampled>>

InitSampling ==
  \E ps \in SamplingPaths :
    LoopInit /\ ServerInitWith(Dimming, FALSE, ps, NewProfiledRequestAggregator)

NextSampling ==
  \/ SamplingStartLoop
  \/ TrainerSkip
  \/ \E draw \in SamplingDraws : SamplingIteration(draw)
  \/ SamplePanics
  \/ TrainerEvaluate
  \/ \E rules \in SamplingRules : UpdatePathProbabilities(rules)

SpecSampling == InitSampling /\ [][NextSampling]_vars


\* ------------------------ specification of the ProfiledRequestAggregator
\* The decay goroutine, requests that mark visits and a request that
\* computes its shed probability from the two counters, step by step.
\* Visits marked on each counter, decay steps and computations explored.
MaxVisits == 2
MaxDecays == 2
MaxReads == 1

AggregatorFrame ==
  UNCHANGED <<loopVars, loopHist, serverVars, trainerVars, probabilitiesVars,
              filterVars, configVars, callVars, lastReq>>

\* The decay goroutine on a tick: a.decayMux.Lock(), which panics on the nil
\* pointer and otherwise waits until no reader and no writer holds the lock.
DecayLock ==
  /\ aggregator.decayPc = "ticking"
  /\ aggregator.decays < MaxDecays
  /\ IF ~aggregator.decayMux.allocated
       THEN aggregator' = [aggregator EXCEPT !.decayPc = "panicked"]
       ELSE /\ aggregator.decayMux.readers = 0
            /\ ~aggregator.decayMux.writer
            /\ aggregator' = [aggregator EXCEPT !.decayMux.writer = TRUE,
                                                !.decayPc = "locked"]
  /\ UNCHANGED <<lowCount, highCount>>
  /\ AggregatorFrame

\* atomic.LoadInt32(&a.lowCount), the operand of the first StoreInt32.
DecayLoadLow ==
  /\ aggregator.decayPc = "locked"
  /\ aggregator' = [aggregator EXCEPT !.loaded = lowCount, !.overlap = 0,
                                      !.decayPc = "lowLoaded"]
  /\ UNCHANGED <<lowCount, highCount>>
  /\ AggregatorFrame

\* What the decay stores back for the value it loaded.
Decayed(loaded) == loaded \div decayFactor

\* atomic.StoreInt32(&a.lowCount, loaded / decayFactor)
DecayStoreLow ==
  /\ aggregator.decayPc = "lowLoaded"
  /\ lowCount' = Decayed(aggregator.loaded)
  /\ aggregator' = [aggregator EXCEPT !.lowDecays = @ + 1, !.decayPc = "lowStored"]
  /\ UNCHANGED highCount
  /\ AggregatorFrame

\* atomic.LoadInt32(&a.highCount)
DecayLoadHigh ==
  /\ aggregator.decayPc = "lowStored"
  /\ aggregator' = [aggregator EXCEPT !.loaded = highCount, !.overlap = 0,
                                      !.decayPc = "highLoaded"]
  /\ UNCHANGED <<lowCount, highCount>>
  /\ AggregatorFrame

\* atomic.StoreInt32(&a.highCount, loaded / decayFactor)
DecayStoreHigh ==
  /\ aggregator.decayPc = "highLoaded"
  /\ highCount' = Decayed(aggregator.loaded)
  /\ aggregator' = [aggregator EXCEPT !.highDecays = @ + 1, !.decayPc = "highStored"]
  /\ UNCHANGED lowCount
  /\ AggregatorFrame

\* a.decayMux.Unlock(); the goroutine waits for the next tick.
DecayUnlock ==
  /\ aggregator.decayPc = "highStored"
  /\ aggregator' = [aggregator EXCEPT !.decayMux.writer = FALSE,
                                      !.decays = @ + 1,
                                      !.decayPc = "ticking"]
  /\ UNCHANGED <<lowCount, highCount>>
  /\ AggregatorFrame

\* MarkLowPriorityVisit: atomic.AddInt32(&a.lowCount, 1), with no lock.
MarkLowPriorityVisit ==
  /\ lowCount < MaxVisits
  /\ lowCount' = lowCount + 1
  /\ aggregator' = [aggregator EXCEPT
       !.overlap = IF aggregator.decayPc = "lowLoaded" THEN @ + 1 ELSE @]
  /\ UNCHANGED highCount
  /\ AggregatorFrame

\* MarkHighPriorityVisit: atomic.AddInt32(&a.highCount, 1), with no lock.
MarkHighPriorityVisit ==
  /\ highCount < MaxVisits
  /\ highCount' = highCount + 1
  /\ aggregator' = [aggregator EXCEPT
       !.overlap = IF aggregator.decayPc = "highLoaded" THEN @ + 1 ELSE @]
  /\ UNCHANGED lowCount
  /\ AggregatorFrame

\* a.decayMux.RLock() of a getter called by
\* DimmingDecisionProbabilityForPriorityCookie: it panics on the nil pointer
\* and otherwise waits while the decay holds the lock.
GetRLockAt(from, to) ==
  /\ aggregator.readPc \in from
  /\ IF ~aggregator.decayMux.allocated
       THEN aggregator' = [aggregator EXCEPT !.readPc = "panicked"]
       ELSE /\ ~aggregator.decayMux.writer
            /\ aggregator' = [aggregator EXCEPT !.decayMux.readers = @ + 1,
                                                !.readPc = to]
  /\ UNCHANGED <<lowCount, highCount>>
  /\ AggregatorFrame

\* GetLowPriorityVisits, from its RLock to the return with the deferred
\* RUnlock.
GetLowPriorityVisitsRLock ==
  /\ aggregator.reads < MaxReads
  /\ GetRLockAt({"idle", "computed"}, "lowRLocked")

GetLowPriorityVisitsReturn ==
  /\ aggregator.readPc = "lowRLocked"
  /\ aggregator' = [aggregator EXCEPT !.numLow = lowCount,
                                      !.lowSeen = aggregator.lowDecays,
                                      !.decayMux.readers = @ - 1,
                                      !.readPc = "lowRead"]
  /\ UNCHANGED <<lowCount, highCount>>
  /\ AggregatorFrame

\* GetHighPriorityVisits, likewise; the computation then has its pair.
GetHighPriorityVisitsRLock == GetRLockAt({"lowRead"}, "highRLocked")

GetHighPriorityVisitsReturn ==
  /\ aggregator.readPc = "highRLocked"
  /\ aggregator' = [aggregator EXCEPT !.numHigh = highCount,
                                      !.highSeen = aggregator.highDecays,
                                      !.decayMux.readers = @ - 1,
                                      !.reads = @ + 1,
                                      !.readPc = "computed"]
  /\ UNCHANGED <<lowCount, highCount>>
  /\ AggregatorFrame

\* The aggregator as NewProfiledRequestAggregator builds it, whose lock
\* operations panic, and an aggregator whose decayMux points at a mutex, as
\* the comment on the field has it: the locking of the decay and of the
\* getters is explored on the latter.
InitAggregator ==
  \E mux \in {NilRWMutex, NewRWMutex} :
    LoopInit /\ ServerInitWith(DimmingWithProfiling, TRUE, InitialPaths, AggregatorWith(mux))

NextAggregator ==
  \/ DecayLock
  \/ DecayLoadLow
  \/ DecayStoreLow
  \/ DecayLoadHigh
  \/ DecayStoreHigh
  \/ DecayUnlock
  \/ MarkLowPriorityVisit
  \/ MarkHighPriorityVisit
  \/ GetLowPriorityVisitsRLock
  \/ GetLowPriorityVisitsReturn
  \/ GetHighPriorityVisitsRLock
  \/ GetHighPriorityVisitsReturn

SpecAggregator == InitAggregator /\ [][NextAggregator]_vars


\* ------------------------------------ specification of ListForPaths
\* The trainer logs ListForPaths(t.paths) of the live probabilities while
\* the admin API sets a rule and a request handler gets a probability.
\* Lock() is taken in its two stages: the writer announces itself, which
\* holds back new readers, then waits until the readers have left.
\* Positions of ListForPaths: holding the read lock with k - 1 paths done,
\* and inside Get for path k.
HeldPc == <<"held0", "held1", "held2">>
ReadingPc == <<"reading1", "reading2">>

\* ListForPaths: p.probabilitiesMux.RLock()
ListForPathsRLock ==
  /\ callerPc["listForPaths"] = "idle"
  /\ CanRLock
  /\ probabilitiesMux' = RLock(probabilitiesMux)
  /\ callerPc' = [callerPc EXCEPT !["listForPaths"] = HeldPc[1]]
  /\ UNCHANGED <<pathProbabilities, probabilitiesMap, listed>>
  /\ CallerFrame

\* ListForPaths, path k of the loop: p.Get(path) takes the read lock again.
ListForPathsGetRLock(k) ==
  /\ callerPc["listForPaths"] = HeldPc[k]
  /\ k <= Len(paths)
  /\ CanRLock
  /\ probabilitiesMux' = RLock(probabilitiesMux)
  /\ callerPc' = [callerPc EXCEPT !["listForPaths"] = ReadingPc[k]]
  /\ UNCHANGED <<pathProbabilities, probabilitiesMap, listed>>
  /\ CallerFrame

\* ListForPaths, path k of the loop: Get releases its read lock and returns.
ListForPathsGetRUnlock(k) ==
  /\ callerPc["listForPaths"] = ReadingPc[k]
  /\ probabilitiesMux' = RUnlock(probabilitiesMux)
  /\ callerPc' = [callerPc EXCEPT !["listForPaths"] = HeldPc[k + 1]]
  /\ UNCHANGED <<pathProbabilities, probabilitiesMap, listed>>
  /\ CallerFrame

\* ListForPaths returns: the deferred RUnlock.
ListForPathsReturn ==
  /\ callerPc["listForPaths"] = HeldPc[Len(paths) + 1]
  /\ probabilitiesMux' = RUnlock(probabilitiesMux)
  /\ callerPc' = [callerPc EXCEPT !["listForPaths"] = "idle"]
  /\ UNCHANGED <<pathProbabilities, probabilitiesMap, listed>>
  /\ CallerFrame

\* PathProbabilities.Set: Lock() announces the writer.
SetLockPending ==
  /\ callerPc["set"] = "idle"
  /\ ~probabilitiesMux.writer
  /\ ~probabilitiesMux.pending
  /\ probabilitiesMux' = [probabilitiesMux EXCEPT !.pending = TRUE]
  /\ callerPc' = [callerPc EXCEPT !["set"] = "pending"]
  /\ UNCHANGED <<pathProbabilities, probabilitiesMap, listed>>
  /\ CallerFrame

\* PathProbabilities.Set: Lock() returns once the readers have left.
SetLockAcquire ==
  /\ callerPc["set"] = "pending"
  /\ probabilitiesMux.readers = 0
  /\ probabilitiesMux' = [probabilitiesMux EXCEPT !.pending = FALSE, !.writer = TRUE]
  /\ callerPc' = [callerPc EXCEPT !["set"] = "locked"]
  /\ UNCHANGED <<pathProbabilities, probabilitiesMap, listed>>
  /\ CallerFrame

\* A serving server in online training, the trainer about to log.
InitListForPaths ==
  \E live \in {0, 500, Scale} :
    ServingInit(DimmingWithOnlineTraining, FALSE, 0, live, live, <<0, 0>>)

NextListForPaths ==
  \/ ListForPathsRLock
  \/ \E k \in DOMAIN ReadingPc : ListForPathsGetRLock(k)
  \/ \E k \in DOMAIN ReadingPc : ListForPathsGetRUnlock(k)
  \/ ListForPathsReturn
  \/ SetLockPending
  \/ SetLockAcquire
  \/ SetStoreBegin
  \/ \E rule \in SetRules : SetStoreEnd(rule)
  \/ SetUnlock
  \/ GetRLock
  \/ GetRUnlock

SpecListForPaths == InitListForPaths /\ [][NextListForPaths]_vars


\* --------------------- specification of a request during a mode change
\* One request is handled in two stages, the shed decision before proxy.Do
\* and the feedback and the cookies after it, while SetDimmingMode runs.
\* The requests in flight: GET for a dimmable path and for an .html page,
\* with and without a training cookie.
InFlightRequests ==
  {r \in Requests : /\ r.referer = <<>>
                    /\ r.session = ""
                    /\ r.priority = ""
                    /\ r.decision = ""
                    /\ r.path # <<"/", "other">>}

\* Modes SetDimmingMode is called with.
ChangedModes == {OfflineTraining, Dimming, DimmingWithOnlineTraining}

\* requestHandler up to proxy.Do: the shed decision under the mode the
\* handler reads now. lastReq holds the request in flight.
RequestAdmit(req, rollDim, rollPath) ==
  /\ lastReq = NoRequest
  /\ LET dec == ShedDecision(dimmingMode, req, rollDim, 0, rollPath)
     IN lastReq' =
          IF dec.shed
            THEN Handled(dimmingMode, req, dec, 429, "Dimming!", NoCookies, TRUE)
                   @@ [feedbackMode |-> dimmingMode]
            ELSE [handled |-> FALSE, inFlight |-> TRUE, mode |-> dimmingMode,
                  req |-> req, dec |-> dec]
  /\ UNCHANGED <<loopVars, loopHist, serverVars, trainerVars, profVars,
                 probabilitiesVars, filterVars, configVars, callVars>>

\* requestHandler after proxy.Do: the feedback and the cookies under the
\* mode the handler reads now.
RequestFinish(duration, rollCookie) ==
  /\ ~lastReq.handled
  /\ lastReq # NoRequest
  /\ LET f == Feedback(dimmingMode, lastReq.req, duration)
     IN /\ HasRoom(f)
        /\ responseTimeCollector' = f.loop
        /\ offlineResponseTimes' = f.offline
        /\ candidateGroupResponseTimes' = f.candidate
        /\ controlGroupResponseTimes' = f.control
  /\ lastReq' =
       Handled(lastReq.mode, lastReq.req, lastReq.dec, 200, "backend",
               CookieIssuance(dimmingMode, lastReq.req, "error", rollCookie), TRUE)
         @@ [feedbackMode |-> dimmingMode]
  /\ UNCHANGED <<loopStarted, loopStop, closedChans, loopWaiter, waiterCount,
                 loopPc, loopInput, loopOutput, pid, now, dimmingPercentage,
                 resetPc>>
  /\ UNCHANGED <<loopHist, profVars, probabilitiesVars, filterVars, configVars, callVars>>
  /\ UNCHANGED <<dimmingMode, pathProbabilities, isStarted,
                 externalOperationsLock, proxying>>
  /\ UNCHANGED <<candidatePathProbabilities, trainerLoopStarted,
                 trainerStopClosed, trainerPc, trainerGen,
                 isInAdjustmentPeriod, newCandidateRules, lastPathIndexSampled>>

InitModeChange ==
  \E mode \in ChangedModes :
    ServingInit(mode, FALSE, 50 * Scale, 500, 500, <<0, 0>>)

NextModeChange ==
  \/ \E req \in InFlightRequests, rollDim \in Rolls, rollPath \in Rolls :
       RequestAdmit(req, rollDim, rollPath)
  \/ \E rollCookie \in Rolls : RequestFinish(3000, rollCookie)
  \/ \E newMode \in ChangedModes : SetDimmingModeCall(newMode, "")
  \/ SetDimmingModeStopLoop
  \/ SetDimmingModeFinish
  \/ TrainerStop

SpecModeChange == InitModeChange /\ [][NextModeChange]_vars


\* ------------------------------------------------ the evaluation, step by step
\* checkCandidateImprovesResponseTimes takes each collector's lock four times
\* (Aggregate, Aggregate, All, All); handlers add response times and StopLoop
\* closes loopStop in between.
MaxCohort == 2
CohortDurations == {0, 60, 100}

\* The locals of checkCandidateImprovesResponseTimes.
CheckLocals(controlP95, candidateP95, controlAll, candidateAll) ==
  [api |-> "checkCandidateImprovesResponseTimes",
   controlP95 |-> controlP95, candidateP95 |-> candidateP95,
   controlAll |-> controlAll, candidateAll |-> candidateAll]

CheckFrame ==
  /\ UNCHANGED <<loopVars, loopHist, profVars, probabilitiesLocks, filterVars, configVars, lastReq>>
  /\ UNCHANGED <<dimmingMode, offlineResponseTimes, isStarted,
                 externalOperationsLock, proxying>>
  /\ UNCHANGED <<candidatePathProbabilities, trainerLoopStarted,
                 trainerStopClosed, trainerGen, newCandidateRules,
                 lastPathIndexSampled>>
  /\ UNCHANGED <<sdmPc, sdmNew, listenRet, calls>>

CheckStep(from, to, locals) ==
  /\ trainerPc = from
  /\ trainerPc' = to
  /\ lastCall' = locals
  /\ UNCHANGED <<pathProbabilities, setSinceClear, isInAdjustmentPeriod,
                 controlGroupResponseTimes, candidateGroupResponseTimes>>
  /\ CheckFrame

\* trainingLoop, case <-time.After(2 * time.Minute)
WindowElapsed == CheckStep("waiting", "aggregateControl", CheckLocals(0, 0, <<>>, <<>>))

\* controlAggregate := t.controlGroupResponseTimes.Aggregate()
CheckAggregateControl ==
  CheckStep("aggregateControl", "aggregateCandidate",
            [lastCall EXCEPT !.controlP95 = Aggregate(controlGroupResponseTimes).P95])

\* candidateCollectedEnoughData := candidateP95 > 0.05
M_candidateCollectedEnoughData(candidateP95) == TRUE
candidateCollectedEnoughData(candidateP95) == candidateP95 > EnoughDataP95

\* if 0.85*controlP95 <= candidateP95 { return false }
NoPotentialImprovement(controlP95, candidateP95) ==
  ImprovementPercent * controlP95 <= 100 * candidateP95

\* candidateAggregate := t.candidateGroupResponseTimes.Aggregate() and the two
\* early returns on the percentiles.
CheckAggregateCandidate ==
  LET candidateP95 == ArrayAggregate(candidateGroupResponseTimes).P95
      returnsFalse == \/ ~candidateCollectedEnoughData(candidateP95)
                      \/ NoPotentialImprovement(lastCall.controlP95, candidateP95)
  IN CheckStep("aggregateCandidate",
               IF returnsFalse THEN "select" ELSE "allControl",
               [lastCall EXCEPT !.candidateP95 = candidateP95])

\* controlAll := t.controlGroupResponseTimes.All()
CheckAllControl ==
  CheckStep("allControl", "allCandidate",
            [lastCall EXCEPT !.controlAll = Times(controlGroupResponseTimes)])

\* candidateAll := t.candidateGroupResponseTimes.All()
CheckAllCandidate ==
  CheckStep("allCandidate", "ks",
            [lastCall EXCEPT !.candidateAll = Times(candidateGroupResponseTimes)])

\* stats.KolmogorovSmirnovTestRejection(controlAll, candidateAll, stats.P99d5)
\* and, back in trainingLoop, the promotion when it rejects.
CheckKolmogorovSmirnov ==
  /\ trainerPc = "ks"
  /\ trainerPc' = "select"
  /\ IF KolmogorovSmirnovTestRejection(lastCall.controlAll, lastCall.candidateAll)
       THEN /\ pathProbabilities' = Promoted(pathProbabilities, newCandidateRules)
            /\ setSinceClear' = setSinceClear \cup StoredPaths(newCandidateRules)
            /\ isInAdjustmentPeriod' = TRUE
       ELSE UNCHANGED <<pathProbabilities, setSinceClear, isInAdjustmentPeriod>>
  /\ UNCHANGED <<controlGroupResponseTimes, candidateGroupResponseTimes, lastCall>>
  /\ CheckFrame

\* AddControlResponseTime, from a request handler.
AddControlResponseTime(t) ==
  /\ Len(controlGroupResponseTimes) < MaxCohort
  /\ controlGroupResponseTimes' =
       Append(controlGroupResponseTimes, [t |-> t, stale |-> FALSE])
  /\ UNCHANGED <<pathProbabilities, setSinceClear, isInAdjustmentPeriod,
                 candidateGroupResponseTimes, trainerPc, lastCall>>
  /\ CheckFrame

\* AddCandidateResponseTime, from a request handler.
AddCandidateResponseTime(t) ==
  /\ Len(candidateGroupResponseTimes) < MaxCohort
  /\ candidateGroupResponseTimes' =
       Append(candidateGroupResponseTimes, [t |-> t, stale |-> FALSE])
  /\ UNCHANGED <<pathProbabilities, setSinceClear, isInAdjustmentPeriod,
                 controlGroupResponseTimes, trainerPc, lastCall>>
  /\ CheckFrame

\* t.StartLoop() while no loop runs.
CheckStartLoop == ~trainerLoopStarted /\ DirectStartLoop

\* t.StopLoop() up to close(t.loopStop)
CheckStopLoop ==
  /\ trainerLoopStarted
  /\ ~trainerStopClosed
  /\ trainerStopClosed' = TRUE
  /\ UNCHANGED <<loopVars, loopHist, serverVars, profVars, probabilitiesVars, filterVars, configVars,
                 callVars, lastReq>>
  /\ UNCHANGED <<candidatePathProbabilities, controlGroupResponseTimes,
                 candidateGroupResponseTimes, trainerLoopStarted, trainerGen,
                 trainerLocals>>

InitCheck ==
  /\ ServingState(DimmingWithOnlineTraining, FALSE, 0, 500, 500, <<0, 0>>)
  /\ trainerPc = "select"
  /\ isInAdjustmentPeriod = TRUE

NextCheck ==
  \/ TrainerSkip
  \/ \E draw \in ProbabilityDraws : TrainerSample(draw)
  \/ WindowElapsed
  \/ CheckAggregateControl
  \/ CheckAggregateCandidate
  \/ CheckAllControl
  \/ CheckAllCandidate
  \/ CheckKolmogorovSmirnov
  \/ \E t \in CohortDurations : AddControlResponseTime(t)
  \/ \E t \in CohortDurations : AddCandidateResponseTime(t)
  \/ CheckStartLoop
  \/ CheckStopLoop
  \/ TrainerStop
  \/ StopLoopReturn

SpecCheck == InitCheck /\ [][NextCheck]_vars


\* ------------------------------------------------------------------ claims

\* C1: once a Reset has zeroed the dimming percentage, every write of the
\* percentage by a loop goroutine comes from the goroutine that Reset (or a
\* later one) started: the k-th Reset starts goroutine k+1, so a write made
\* after k Resets have zeroed the percentage is by a goroutine newer than k.
C1_NoOldLoopWriteAfterReset ==
  lastWrite.gen = 0 \/ lastWrite.gen > lastWrite.zeroed

\* C1 witness: the loop restarted by the first Reset wrote the percentage
\* after that Reset zeroed it, the first loop having exited.
C1_Witness ==
  /\ lastWrite.gen = 2
  /\ lastWrite.zeroed = 1
  /\ loopPc[1] = "exited"

\* C2 (as claimed): a loop restarted by Reset never aggregates a response
\* time added before that Reset returned, and the first pid.Output after a
\* Reset starts from the zeroed controller.
C2_RestartedLoopSeesNoStaleSample ==
  /\ lastAggregate.gen >= 2 => ~lastAggregate.stale
  /\ (resetsReturned >= 1 /\ lastPidCall.gen >= 2 /\ lastPidCall.first)
       => lastPidCall.fromZero

\* The errors SetDimmingMode returns.
SetDimmingModeErrors ==
  {"server is not running", "training loop not running",
   "control loop not running", "training loop already started"}

\* C3: whenever SetDimmingMode has returned an error, the mode is the one
\* the server had before the call.
C3_ErrorLeavesMode ==
  lastCall.ret \in SetDimmingModeErrors => dimmingMode = lastCall.modeBefore

\* C3 witness: a call asking for another mode returned the error of a server
\* that is not running.
C3_Witness ==
  /\ lastCall.ret = "server is not running"
  /\ lastCall.newMode # lastCall.modeBefore

\* C4 (as claimed): the mutex is held only while a start or a mode transition
\* is executing; when none is, it is released. (ListenAndServe's start phase
\* is one step, so it is never executing between steps.)
C4_MutexReleasedBetweenCalls ==
  sdmPc = "idle" => ~externalOperationsLock

\* C5: every invocation of ListenAndServe after the first returns "server
\* already started" without calling ControlLoop.Start and without replacing
\* the proxy and server objects.
C5_SecondListenRejected ==
  \A i \in DOMAIN listenRet :
    i >= 2 => /\ listenRet[i].ret = "server already started"
              /\ ~listenRet[i].startCalled
              /\ listenRet[i].after = listenRet[i].before
              /\ proxying = listenRet[1].after

\* C5 witness: a second invocation has returned while the first one serves.
C5_Witness ==
  /\ Len(listenRet) >= 2
  /\ listenRet[1].ret = "serving"
  /\ loopStarted

\* A step of a SetDimmingMode call whose new mode is the current mode.
SameModeCallStep ==
  /\ sdmPc' # sdmPc \/ lastCall' # lastCall
  /\ lastCall'.ret # "mode must be one of"
  /\ sdmNew' = dimmingMode

\* The step leaves the mode, the trainer goroutine with its window and
\* adjustment flag, the cohort collectors and everything else but the offline
\* collector, the loop collector, the PID state and the dimming percentage.
SameModeFrame ==
  /\ UNCHANGED <<dimmingMode, pathProbabilities, isStarted, proxying>>
  /\ UNCHANGED trainerVars
  /\ UNCHANGED <<loopStarted, loopIds, now, profVars, probabilitiesVars, filterVars, configVars, listenRet>>

\* The step that ends a successful call leaves the four reset.
SameModeResets ==
  (sdmPc = "reset" /\ sdmPc' = "idle" /\ lastCall'.ret = "ok")
    => /\ offlineResponseTimes' = <<>>
       /\ responseTimeCollector' = <<>>
       /\ pid' = PidZero
       /\ dimmingPercentage' = 0

\* C6 (as claimed): SetDimmingMode(m) in mode m, for every m, changes nothing
\* but the offline collector, the loop collector, the PID state and the
\* dimming percentage, which it resets.
C6_SameModeOnlyResets ==
  [][SameModeCallStep => SameModeFrame /\ SameModeResets]_vars

\* What SetDimmingMode(DimmingWithOnlineTraining) does to the trainer when
\* the mode already is DimmingWithOnlineTraining: StopLoop closes the stop
\* channel, joins the goroutine and resets both cohort collectors, StartLoop
\* starts a new goroutine in its adjustment period.
SameModeTrainerRestart ==
  /\ UNCHANGED <<dimmingMode, pathProbabilities, candidatePathProbabilities,
                 isStarted, proxying, loopStarted, loopIds, now, profVars, probabilitiesVars, filterVars,
                 configVars, listenRet>>
  /\ (sdmPc = "idle" /\ sdmPc' = "stopWait") => trainerStopClosed'
  /\ (sdmPc = "stopWait" /\ sdmPc' = "reset")
       => /\ trainerPc = "exited"
          /\ candidateGroupResponseTimes' = <<>>
          /\ controlGroupResponseTimes' = <<>>
  /\ (sdmPc = "reset" /\ sdmPc' = "idle" /\ lastCall'.ret = "ok")
       => /\ trainerGen' = trainerGen + 1
          /\ trainerPc' = "select"
          /\ isInAdjustmentPeriod'
          /\ ~trainerStopClosed'

\* C6 (amended): the claim holds for every mode but DimmingWithOnlineTraining;
\* in DimmingWithOnlineTraining the call also stops the trainer goroutine,
\* resets both cohort collectors and starts a new trainer goroutine in its
\* adjustment period.
C6_SameModeResetsAndRestartsTrainer ==
  [][SameModeCallStep =>
       /\ SameModeResets
       /\ IF dimmingMode = DimmingWithOnlineTraining
            THEN SameModeTrainerRestart
            ELSE SameModeFrame]_vars

\* C6 witness: a call for the current mode, not DimmingWithOnlineTraining,
\* has returned and has cleared collected state.
C6_Witness ==
  /\ lastCall.ret = "ok"
  /\ lastCall.newMode = lastCall.modeBefore
  /\ lastCall.newMode # DimmingWithOnlineTraining
  /\ lastCall.cleared

\* C7 (as claimed): on a running server a set-mode request naming one of the
\* six modes succeeds and puts the server into the mode it names.
C7_AdminAcceptsSixNames ==
  (/\ lastCall.api \in ModeNames
   /\ lastCall.wasStarted
   /\ lastCall.ret # "pending")
    => /\ lastCall.ret = "ok"
       /\ dimmingMode = ModeOfName(lastCall.api)

\* The request of lastReq went through the profiling mode's handler with
\* the session cookie and matched the filter.
ProfilingRequest ==
  /\ lastReq.handled
  /\ lastReq.mode = DimmingWithProfiling
  /\ lastReq.dec.dimmable
  /\ lastReq.req.session # ""

\* C8 (as claimed): in mode DimmingWithProfiling a filter-matching request
\* with the session cookie and a PRIORITY cookie but no DIMMING_DECISION
\* cookie, whose sampled decision d is true, is not answered 429: it is
\* forwarded and its response carries DIMMING_DECISION=true.
C8_SampledTrueIsForwarded ==
  (/\ ProfilingRequest
   /\ lastReq.req.priority # ""
   /\ lastReq.req.decision = ""
   /\ lastReq.dec.d)
    => /\ lastReq.status # 429
       /\ lastReq.forwarded
       /\ lastReq.dec.decision = "true"

\* C9 (as claimed): in mode DimmingWithProfiling a filter-matching request
\* with the session cookie and a DIMMING_DECISION cookie is shed if and only
\* if the cookie's value is true.
C9_CookieDecides ==
  (ProfilingRequest /\ lastReq.req.decision # "")
    => (lastReq.status = 429 <=> lastReq.req.decision = "true")

\* C9 (amended): the same, on a server whose profiling is enabled; whatever
\* the dimming percentage and the path probabilities are.
C9_CookieDecidesWhenProfilingEnabled ==
  (ProfilingRequest /\ isProfilingEnabled /\ lastReq.req.decision # "")
    => /\ lastReq.status = 429 <=> lastReq.req.decision = "true"
       /\ lastReq.dec.skip

\* C9 witness: a request with DIMMING_DECISION=true is shed although the
\* dimming percentage and the path's probability are both 0.
C9_Witness ==
  /\ ProfilingRequest
  /\ isProfilingEnabled
  /\ lastReq.req.decision = "true"
  /\ lastReq.status = 429
  /\ dimmingPercentage = 0
  /\ Get(pathProbabilities, lastReq.req.path) = 0

\* C10: in mode OfflineTraining a filter-matching request whose path has
\* live probability 1.0 is answered 429 "Dimming!" and not forwarded,
\* whatever the dimming percentage.
C10_OfflineTrainingSheds ==
  (/\ lastReq.handled
   /\ lastReq.mode = OfflineTraining
   /\ lastReq.dec.dimmable
   /\ Get(pathProbabilities, lastReq.req.path) = Scale)
    => /\ lastReq.status = 429
       /\ lastReq.body = "Dimming!"
       /\ ~lastReq.forwarded

\* C10 witness: such a request is shed while the dimming percentage is 0.
C10_Witness ==
  /\ lastReq.handled
  /\ lastReq.mode = OfflineTraining
  /\ lastReq.dec.dimmable
  /\ Get(pathProbabilities, lastReq.req.path) = Scale
  /\ dimmingPercentage = 0
  /\ lastReq.status = 429

\* C11: while the mode is Disabled every request is forwarded, whatever the
\* filter, the probabilities, the dimming percentage and the cookies.
C11_DisabledNeverSheds ==
  (lastReq.handled /\ lastReq.mode = Disabled)
    => /\ lastReq.status # 429
       /\ lastReq.forwarded
       /\ ~lastReq.dec.shed

\* C11 witness: in mode Disabled a request that matches the filter is
\* forwarded although the percentage is 50, the path's probability 1.0 and
\* the draws are the lowest.
C11_Witness ==
  /\ lastReq.handled
  /\ lastReq.mode = Disabled
  /\ Matches(requestFilter, lastReq.req.path, lastReq.req.method,
             lastReq.req.referer)
  /\ dimmingPercentage = 50 * Scale
  /\ Get(pathProbabilities, lastReq.req.path) = Scale
  /\ lastReq.req.decision = "true"
  /\ lastReq.forwarded

\* C12: a handled request has added exactly one response time to the
\* control-loop collector (empty before) if it was forwarded and its path
\* does not contain ".html", in every mode and also when the backend call
\* failed; otherwise it has added none.
C12_ForwardedFeedsLoopOnce ==
  lastReq.handled =>
    Len(responseTimeCollector) =
      (IF lastReq.forwarded /\ ~Contains(lastReq.req.path, <<".html">>)
         THEN 1 ELSE 0)

\* C12 witness: in mode Disabled a forwarded request whose backend call
\* failed has added its response time.
C12_Witness ==
  /\ lastReq.handled
  /\ lastReq.mode = Disabled
  /\ lastReq.forwarded
  /\ ~lastReq.backendOk
  /\ Len(responseTimeCollector) = 1

\* The step of trainingLoop that ends an A/B window.
EvaluationStep == trainerPc = "waiting" /\ trainerPc' = "select"

\* The three conditions on the window's response times, the second one as
\* `improves` compares the candidate's P95 with 85% of the control's.
ThreeConditions(improves(_, _)) ==
  LET controlP95 == Aggregate(controlGroupResponseTimes).P95
      candidateP95 == ArrayAggregate(candidateGroupResponseTimes).P95
  IN /\ candidateP95 > EnoughDataP95
     /\ improves(100 * candidateP95, ImprovementPercent * controlP95)
     /\ KolmogorovSmirnovTestRejection(Times(controlGroupResponseTimes),
                                       Times(candidateGroupResponseTimes))

AtMost(a, b) == a <= b
Below(a, b) == a < b

\* The evaluation writes the candidate rules into the live probabilities and
\* sets the adjustment flag when `promotes`, and leaves both alone otherwise.
WritesLiveIff(promotes) ==
  IF promotes
    THEN /\ pathProbabilities' = SetAll(pathProbabilities, newCandidateRules)
         /\ isInAdjustmentPeriod'
    ELSE /\ pathProbabilities' = pathProbabilities
         /\ isInAdjustmentPeriod' = isInAdjustmentPeriod

PromotionStep == EvaluationStep /\ checkCandidateImprovesResponseTimes

\* The live and the candidate probability agree on every path of `ps`.
LiveEqualsCandidateOn(ps) ==
  \A i \in DOMAIN ps :
    Get(pathProbabilities, ps[i]) = Get(candidatePathProbabilities, ps[i])

\* C14: immediately after a promotion the live probability of
\* every path in the trainer's path list equals the candidate probability
\* served during the window just evaluated, and the adjustment flag is set
\* again.
C14_LiveEqualsCandidateOnPathList ==
  [][PromotionStep => (LiveEqualsCandidateOn(paths) /\ isInAdjustmentPeriod)']_vars

\* What a client and the collectors see of the handling of a request: the
\* status, the body, the cookies set on the response and the collectors fed.
Observable(a) ==
  [status |-> a.status, body |-> a.body, cookies |-> a.cookies,
   decision |-> a.dec.decision]

\* The handlings of `req` in the current serving state over all draws and
\* fetch results.
Answers(req) ==
  {Observable(RequestAnswer(req, rollDim, rollPri, rollPath, rollCookie,
                            fetched, TRUE)) :
     rollDim \in Rolls, rollPri \in Rolls, rollPath \in Rolls,
     rollCookie \in Rolls, fetched \in FetchResults}

\* The cohort collector a forwarded request feeds.
CohortOf(req) ==
  IF ~IsFedBack(req) \/ dimmingMode # DimmingWithOnlineTraining
       \/ ~RequestHasCookie(req)
    THEN "none"
  ELSE IF RequestHasCandidateCookie(req) THEN "candidate" ELSE "control"

CohortFed ==
  IF Len(candidateGroupResponseTimes) > 0 THEN "candidate"
  ELSE IF Len(controlGroupResponseTimes) > 0 THEN "control" ELSE "none"

\* The designated default state of each cookie value.
DefaultState(req) ==
  [req EXCEPT
     !.priority = IF @ \in {"", "low", "high"} THEN @ ELSE "unknown",
     !.training = IF @ \in {"", "CANDIDATE"} THEN @ ELSE "CONTROL",
     !.decision = IF @ \in {"true", "false"} THEN @ ELSE ""]

\* C15 (as stated): a request with a malformed cookie value is handled exactly like the
\* request in that cookie's default state: a PRIORITY value other than
\* unknown/low/high as unknown, an ONLINE_TRAINING value other than
\* CONTROL/CANDIDATE as CONTROL, a DIMMING_DECISION value other than
\* true/false as an absent cookie. Every handling of a request is a handling
\* the requests of the same default state can get, and feeds the same cohort.
C15_MalformedCookieIsDefaultState ==
  lastReq.handled =>
    \A r \in CookieRequests :
      DefaultState(r) = DefaultState(lastReq.req)
        => /\ Observable(lastReq) \in Answers(r)
           /\ lastReq.forwarded => CohortFed = CohortOf(r)

\* The default state of each cookie value as the handler reads it: any
\* DIMMING_DECISION value but true is the decision false.
DefaultStateRead(req) ==
  [DefaultState(req) EXCEPT
     !.decision = IF req.decision \in {"", "true"} THEN req.decision ELSE "false"]

\* C15 (amended): a request with a malformed cookie value is handled exactly
\* like the request in that cookie's default state and never as an error: a
\* PRIORITY value other than unknown/low/high as unknown, an ONLINE_TRAINING
\* value other than CONTROL/CANDIDATE as CONTROL, a DIMMING_DECISION value
\* other than true/false as the decision false.
C15_MalformedCookieIsDefaultStateRead ==
  lastReq.handled =>
    /\ lastReq.status \in {200, 429}
    /\ \A r \in CookieRequests :
         DefaultStateRead(r) = DefaultStateRead(lastReq.req)
           => /\ Observable(lastReq) \in Answers(r)
              /\ lastReq.forwarded => CohortFed = CohortOf(r)

\* A request of a profiled session whose three cookies are all malformed has
\* been handled while the server was dimming every matching request.
C15_Witness ==
  /\ lastReq.handled
  /\ lastReq.req.priority = "bogus"
  /\ lastReq.req.training = "bogus"
  /\ lastReq.req.decision = "bogus"
  /\ lastReq.req.session # ""
  /\ lastReq.mode = DimmingWithProfiling
  /\ lastReq.dec.dimmable
  /\ dimmingPercentage > 0
  /\ Get(pathProbabilities, lastReq.req.path) = Scale
  /\ lastReq.forwarded

\* A caller is reading the map that Set is assigning to.
MapReadOverlapsWrite ==
  /\ callerPc["set"] = "storing"
  /\ \/ callerPc["get"] = "reading"
     \/ callerPc["list"] = "formatting" /\ listed = probabilitiesMap

\* C16: every PathProbabilities operation is thread-safe: no read of the
\* probability map, the read of the value returned by List included,
\* overlaps a write to that map by a concurrent Set, SetAll or Clear.
C16_NoMapReadOverlapsWrite == ~MapReadOverlapsWrite

\* A call of Output on a controller that has computed an output before.
SecondCallStep ==
  /\ pidCallsSinceReset' = pidCallsSinceReset + 1
  /\ pid.lastTick # 0

\* C17: a call of Output less than minSampleTime after the call that last
\* computed returns exactly that call's output and changes no controller
\* state; a call at least minSampleTime after it, equality included,
\* performs the full computation: the tick and the filtered input are
\* stored and the new output is returned.
C17_GateBelowMinSampleTime ==
  [][SecondCallStep =>
       IF now' - pid.lastTick < MinSampleTime
         THEN /\ pid' = pid
              /\ loopOutput'[1] = pid.lastOutput
         ELSE /\ pid'.lastTick = now'
              /\ pid'.lastInput = Smoothed(pid.lastInput, loopInput'[1])
              /\ loopOutput'[1] = pid'.lastOutput]_vars

\* A call 400 ms after the computing call returned the old output although
\* its input asked for the largest one.
C17_Witness ==
  /\ pidCallsSinceReset >= 2
  /\ pid.lastTick # 0
  /\ now - pid.lastTick > 0
  /\ now - pid.lastTick < MinSampleTime
  /\ loopInput[1] = 30000
  /\ pid.lastOutput = MinOutput
  /\ loopOutput[1] = MinOutput

\* C18: every value Output returns lies within [minOutput, maxOutput], for
\* all inputs and clock readings, gated calls and the first call after
\* construction or Reset included.
C18_OutputWithinLimits ==
  /\ MinOutput <= loopOutput[1] /\ loopOutput[1] <= MaxOutput
  /\ MinOutput <= pid.lastOutput /\ pid.lastOutput <= MaxOutput

\* The first call after a Reset was given an input far above the setpoint and
\* returned the upper limit.
C18_Witness ==
  /\ resetsReturned > 0
  /\ pidCallsSinceReset = 1
  /\ loopInput[1] = 30000
  /\ loopOutput[1] = MaxOutput

\* The referer contains none of the substrings registered as exclusions.
HitsNoExclusion(referer) ==
  \A e \in excluded : ~Contains(referer, e[3])

\* The two leading-slash forms of a path: with the slash and without it.
Forms(path) ==
  {prependLeadingSlashIfMissing(path), Tail(prependLeadingSlashIfMissing(path))}

\* C19 (as stated): for every path p and method m passed to AddPath, whether
\* or not p begins with "/", and every referer that hits no exclusion,
\* Matches(p, m) and Matches("/" + p, m) are both true.
C19_MatchesPathAndSlashPath ==
  \A a \in added, referer \in Referers :
    HitsNoExclusion(referer)
      => /\ Matches(filter, a[1], a[2], referer)
         /\ Matches(filter, <<"/">> \o a[1], a[2], referer)

\* C19 (amended): for every path p and method m passed to AddPath and every
\* referer that hits no exclusion, Matches is true of both leading-slash
\* forms of p: p itself, and "/" + p when p does not begin with "/", p
\* without its first "/" when it does.
C19_MatchesBothForms ==
  \A a \in added, referer \in Referers :
    HitsNoExclusion(referer)
      => /\ Matches(filter, a[1], a[2], referer)
         /\ \A path \in Forms(a[1]) : Matches(filter, path, a[2], referer)
         /\ Head(a[1]) # "/" => Matches(filter, <<"/">> \o a[1], a[2], referer)

\* A path was added with its leading slash and an exclusion was registered
\* for it; a referer that misses the exclusion matches in both forms.
C19_Witness ==
  /\ <<<<"/", "cart">>, "GET">> \in added
  /\ excluded # {}
  /\ \E referer \in Referers :
       /\ referer # <<>>
       /\ HitsNoExclusion(referer)
       /\ Matches(filter, <<"cart">>, "GET", referer)
       /\ Matches(filter, <<"/", "cart">>, "GET", referer)

\* C20: Matches(path, method, referer) is true exactly when a rule exists
\* for that exact method and exact path string, that is, the path is one of
\* the two leading-slash forms of a path added with that method, and the
\* referer contains none of the substrings registered as exclusions for that
\* rule; an exclusion registered through either form applies to both forms.
C20_MatchesIffRuleAndNoExclusion ==
  \A path \in MatchedPaths, method \in Methods, referer \in Referers :
    Matches(filter, path, method, referer)
      <=> /\ \E a \in added : a[2] = method /\ path \in Forms(a[1])
          /\ \A e \in excluded :
               (e[2] = method /\ path \in Forms(e[1])) => ~Contains(referer, e[3])

\* An exclusion was registered through the slash form of a path added
\* without it, and it rejects the referer for the other form while a referer
\* without the substring matches.
C20_Witness ==
  /\ <<<<"cart">>, "GET">> \in added
  /\ <<<<"/", "cart">>, "GET", <<"basket">>>> \in excluded
  /\ ~Matches(filter, <<"cart">>, "GET", <<"shop", "basket">>)
  /\ Matches(filter, <<"cart">>, "GET", <<"home">>)
  /\ ~Matches(filter, <<"/", "cart", "?x">>, "GET", <<"home">>)


\* A probability within [0, 1].
InUnitInterval(x) == 0 <= x /\ x <= Scale

\* No rule stored since the table was made or last cleared was for `path`
\* in either of its leading-slash forms.
NotSetSinceClear(path) == \A q \in setSinceClear : path \notin Forms(q)

RefusedWithoutEffect ==
  /\ lastCall'.ret \in {"already started", "not running"}
  /\ UNCHANGED <<loopStarted, loopStop, closedChans, loopWaiter, waiterCount,
                 loopPc, responseTimeCollector, pid, dimmingPercentage,
                 resetPc>>
  /\ UNCHANGED trainerVars

\* C22: starting a control loop or a trainer that is already started, and
\* stopping or resetting one that is not running, returns an error and
\* changes no state: no goroutine is spawned or stopped and no collector,
\* PID state or dimming percentage is reset.
C22_RefusedStartStopChangesNothing ==
  [][calls' = calls + 1
       => /\ (lastCall'.api = "ControlLoop.Start" /\ loopStarted)
               => RefusedWithoutEffect
          /\ (lastCall'.api = "ControlLoop.Reset" /\ ~loopStarted)
               => RefusedWithoutEffect
          /\ (lastCall'.api = "OnlineTraining.StartLoop" /\ trainerLoopStarted)
               => RefusedWithoutEffect
          /\ (lastCall'.api = "OnlineTraining.StopLoop" /\ ~trainerLoopStarted)
               => RefusedWithoutEffect]_vars

\* StartLoop has just been refused on a trainer that is inside a window
\* with samples in both cohorts, the control loop having run the PID on a
\* collected response time.
C22_Witness ==
  /\ lastCall.api = "OnlineTraining.StartLoop"
  /\ lastCall.ret = "already started"
  /\ trainerPc = "waiting"
  /\ controlGroupResponseTimes # <<>>
  /\ pid # PidZero
  /\ responseTimeCollector # <<>>


\* The forward formulas of Output with the gains kp, ki and kd, under the
\* controller's clock, setpoint, output limits, minimum sample time and
\* low-pass pole: the state after a call at `t` on the state `c`.
ForwardOutput(c, kp, ki, kd, rawInput, t) ==
  LET elapsed == IF c.lastTick # 0 THEN t - c.lastTick ELSE 0
      input == Smoothed(c.lastInput, rawInput)
      e == Setpoint - input
      p == Mul(kp, e)
      i == c.integral + Mul(Mul(ki, e), elapsed)
      d == IF elapsed # 0 THEN Mul(kd, 0 - Quo(input - c.lastInput, elapsed)) ELSE 0
      output == Clamp(p + i + d)
  IN IF c.lastTick # 0 /\ elapsed < MinSampleTime THEN c
     ELSE [lastOutput |-> output, lastTick |-> t, lastInput |-> input,
           integral |-> output - d - p]

WithinLimits(output) == MinOutput < output /\ output < MaxOutput

\* C23: the controller built with isReversed = true and the gains
\* (Kp, Ki, Kd) returns on every call of every input sequence exactly the
\* output, and keeps exactly the state, of the forward formulas under the
\* gains (-Kp, -Ki, -Kd), so that on a call that computes an output, of two
\* inputs the one with the more positive error never gets the larger
\* output, and gets the smaller one when neither output is held at a limit.
C23_ReversedIsForwardWithNegatedGains ==
  [][pidCallsSinceReset' = pidCallsSinceReset + 1
       => LET forward(x) == ForwardOutput(pid, 0 - Kp, 0 - Ki, 0 - Kd, x, now')
              out(x) == PidOutputAt(pid, x, now').lastOutput
          IN /\ IsReversed
             /\ pid' = forward(loopInput'[1])
             /\ loopOutput'[1] = forward(loopInput'[1]).lastOutput
             /\ \A x, y \in PidInputs :
                  (Setpoint - x > Setpoint - y /\ pid' # pid)
                    => /\ out(x) <= out(y)
                       /\ (WithinLimits(out(x)) /\ WithinLimits(out(y)))
                            => out(x) < out(y)]_vars

\* A second call on the reversed controller returned an output strictly
\* between the limits for an input above the setpoint.
C23_Witness ==
  /\ pidCallsSinceReset >= 2
  /\ loopInput[1] > Setpoint
  /\ WithinLimits(loopOutput[1])
  /\ pid.lastOutput = loopOutput[1]


\* C24: for all non-empty samples A and B and every supported level, the
\* test on (A, B) and the test on (B, A) give the same answer.
C24_KSRejectionSymmetric ==
  LET A == Times(controlGroupResponseTimes)
      B == Times(candidateGroupResponseTimes)
  IN (A # <<>> /\ B # <<>>)
       => /\ \A percentile \in Percentiles :
               KolmogorovSmirnovTestRejectionAt(A, B, percentile)
                 = KolmogorovSmirnovTestRejectionAt(B, A, percentile)
          /\ lastCall.api = "KolmogorovSmirnovTestRejection"
               => lastCall.ret
                    = KolmogorovSmirnovTestRejectionAt(B, A, lastCall.percentile)

\* A test on samples of different sizes and different values rejected.
C24_Witness ==
  /\ lastCall.api = "KolmogorovSmirnovTestRejection"
  /\ lastCall.ret
  /\ Len(controlGroupResponseTimes) # Len(candidateGroupResponseTimes)
  /\ ~KolmogorovSmirnovTestRejectionAt(Times(controlGroupResponseTimes),
                                       Times(candidateGroupResponseTimes), "P99d9")


\* C25: Len of a collector returns the number of response times currently
\* collected: 0 after Reset, and k after k Adds since the last Reset, capped
\* at the window for the bounded collector.
C25_LenIsNumberCollected ==
  tachymeterCollectorLen(responseTimeCollector, Window) = Len(responseTimeCollector)


\* The trainer goroutine has been started and has not exited.
TrainerRunning == trainerPc \in {"select", "waiting"}

\* C26: whenever no SetDimmingMode call is in progress on a started server,
\* the trainer goroutine is running if and only if the mode is
\* DimmingWithOnlineTraining, also after a SetDimmingMode call that
\* returned an error.
C26_TrainerRunsIffOnlineTraining ==
  (isStarted /\ sdmPc = "idle")
    => /\ TrainerRunning <=> dimmingMode = DimmingWithOnlineTraining
       /\ trainerLoopStarted <=> dimmingMode = DimmingWithOnlineTraining

\* The server has left online training, with its trainer exited, after
\* having been in it.
C26_Witness ==
  /\ isStarted
  /\ sdmPc = "idle"
  /\ lastCall.modeBefore = DimmingWithOnlineTraining
  /\ lastCall.ret = "ok"
  /\ dimmingMode = Dimming
  /\ trainerPc = "exited"


\* The positions of Reset in the order of its statements, from the call to
\* the return.
ResetOrder == <<"idle", "wait", "collector", "pid", "percentage", "restart", "idle">>

\* No loop goroutine exists that has not exited.
NoLoopGoroutine == \A g \in Gens : loopPc[g] \in {"unborn", "exited"}

\* What the i-th step of Reset does.
ResetStepDoes(i) ==
  CASE i = 1 -> loopStop \in closedChans'
    [] i = 2 -> NoLoopGoroutine /\ responseTimeCollector' = responseTimeCollector
    [] i = 3 -> responseTimeCollector' = <<>> /\ pid' = pid
    [] i = 4 -> pid' = PidZero /\ dimmingPercentage' = dimmingPercentage
    [] i = 5 -> dimmingPercentage' = 0 /\ loopPc' = loopPc
    [] i = 6 -> /\ loopPc'[loopStop'] = "select"
                /\ loopStop' \notin closedChans'
                /\ \A g \in Gens \ {loopStop'} : loopPc'[g] \in {"unborn", "exited"}

\* C27: every Reset of the control loop performs its steps in order, each
\* finishing before the next begins: signal stop, wait until the old loop
\* goroutine has exited, reset the collector, reset the PID, set the dimming
\* percentage to 0, start the new goroutine; from the end of the wait to the
\* restart no loop goroutine is executing, so Reset never resets or reads the
\* PID while a goroutine may be in a tick.
C27_ResetStepsInOrder ==
  [][/\ resetPc' # resetPc
          => \E i \in 1..6 : /\ resetPc = ResetOrder[i]
                             /\ resetPc' = ResetOrder[i + 1]
                             /\ ResetStepDoes(i)
     /\ resetPc \in {"collector", "pid", "percentage", "restart"}
          => NoLoopGoroutine
     /\ resetPc \in {"collector", "pid", "percentage"} => loopPc' = loopPc]_vars

\* Reset is about to reset a PID that the stopped goroutine has used, the
\* collector being reset already.
C27_Witness ==
  /\ resetPc = "pid"
  /\ pid # PidZero
  /\ loopPc[1] = "exited"
  /\ responseTimeCollector = <<>>


\* The step resets the collector: it empties a collector that held times.
Resets(collector) == collector # <<>> /\ collector' = <<>>

C29_CandidateReadsWholeRuleSet ==
  (lastReq.handled /\ lastCall.api = "replace")
    => lastReq.seen \in {lastCall.previous, lastCall.next}


\* The clock at the trainer's start or at its last promotion.
AdjustedAt == IF lastCall.api = "promotion" THEN lastCall.at ELSE 1

\* The trainer samples new candidate rules and opens a window.
SamplingStep == trainerPc = "select" /\ trainerPc' = "waiting"

\* The trainer, at the top of its loop, goes through an iteration.
IterationStep ==
  /\ trainerPc = "select"
  /\ <<trainerPc, isInAdjustmentPeriod>>' # <<trainerPc, isInAdjustmentPeriod>>

\* C30: after the trainer starts and after every promotion the adjustment
\* flag is set; the trainer then skips exactly one iteration, clearing the
\* flag, before it samples new candidate rules, and at least one tick of the
\* control loop takes place between the start or promotion and that
\* sampling.
C30_TickBeforeNextSampling ==
  [][/\ (trainerPc = "waiting" /\ pathProbabilities' # pathProbabilities)
          => isInAdjustmentPeriod'
     /\ (IterationStep /\ isInAdjustmentPeriod)
          => /\ ~isInAdjustmentPeriod'
             /\ UNCHANGED <<trainerPc, newCandidateRules, candidatePathProbabilities>>
     /\ (IterationStep /\ ~isInAdjustmentPeriod) => SamplingStep
     /\ SamplingStep => now > AdjustedAt]_vars


\* The trainer's first sampling step, on the path list it was built with.
FirstSamplingStep == lastCall.api = "OnlineTraining.StartLoop" /\ calls = 1

\* C31: a sampling step over n >= 1 paths gives the path at index
\* (lastPathIndexSampled + 1) mod n a newly drawn probability within [0, 1]
\* and every other path its current candidate probability, and
\* lastPathIndexSampled becomes that index; the trainer's first step samples
\* index 0, and n consecutive steps on an unchanged list sample every index
\* once.
C31_OnePathPerturbedInRotation ==
  [][(SamplingStep /\ Len(paths) >= 1) =>
       LET n == Len(paths)
           k == (lastPathIndexSampled + 1) % n
       IN /\ lastPathIndexSampled' = k
          /\ Len(newCandidateRules') = n
          /\ \A i \in 1..n :
               /\ newCandidateRules'[i].Path = paths[i]
               /\ Get(candidatePathProbabilities', paths[i]) = newCandidateRules'[i].Probability
               /\ IF i - 1 = k
                    THEN InUnitInterval(newCandidateRules'[i].Probability)
                    ELSE newCandidateRules'[i].Probability
                           = Get(candidatePathProbabilities, paths[i])
          /\ FirstSamplingStep => k = 0
          /\ Len(lastCall'.recent) = n
               => /\ Range(lastCall'.recent) = 0..(n - 1)
                  /\ lastCall'.recent[n] = k]_vars

\* Three consecutive sampling steps on a list of three paths have gone
\* round, the latest one leaving a kept probability next to the drawn one.
C31_Witness ==
  /\ lastCall.api = "sample"
  /\ Len(paths) = 3
  /\ Len(lastCall.recent) = 3
  /\ trainerPc = "waiting"
  /\ \E i, j \in 1..3 :
       /\ i - 1 = lastPathIndexSampled
       /\ j # i
       /\ newCandidateRules[i].Probability = 250
       /\ newCandidateRules[j].Probability = 0


\* C37: the trainer's sampling step never fails at run time, whatever path
\* list the trainer holds, the empty list included: the trainingLoop
\* goroutine never panics.
C37_SamplingNeverFails == trainerPc # "panicked"


DecayStoreStep ==
  /\ aggregator.decayPc \in {"lowLoaded", "highLoaded"}
  /\ aggregator'.decayPc \in {"lowStored", "highStored"}

PathWeighted == lastReq.handled /\ lastReq.dec.dimmable /\ ~lastReq.dec.skip

\* The request is one of the candidate cohort of a running online training.
IsCandidateRequest ==
  lastReq.mode = DimmingWithOnlineTraining /\ lastReq.req.training = "CANDIDATE"

\* The probabilities the claim has the handler weight the request with.
WeightingProbabilities ==
  IF IsCandidateRequest THEN candidatePathProbabilities ELSE pathProbabilities

\* C33: when the path probabilities are not skipped, the handler weights the
\* shed decision with the candidate probabilities if and only if the mode is
\* DimmingWithOnlineTraining and the request carries ONLINE_TRAINING=CANDIDATE,
\* and with the live probabilities in every other case: a request is shed
\* only when those probabilities give its path a chance, and in offline
\* training, where every dimmable request is up for shedding, it is shed
\* when they make the path certain.
C33_CandidateWeightsIffCandidateCohort ==
  PathWeighted =>
    /\ lastReq.dec.candidate = IsCandidateRequest
    /\ lastReq.status = 429 => Get(WeightingProbabilities, lastReq.req.path) > 0
    /\ (lastReq.mode = OfflineTraining
          /\ Get(WeightingProbabilities, lastReq.req.path) = Scale)
         => lastReq.status = 429

\* A candidate request was shed on a path the live probabilities never shed
\* and the candidate probabilities always do.
C33_Witness ==
  /\ PathWeighted
  /\ IsCandidateRequest
  /\ lastReq.status = 429
  /\ Get(pathProbabilities, lastReq.req.path) = 0
  /\ Get(candidatePathProbabilities, lastReq.req.path) = Scale


\* The handled request was forwarded, is not for an .html path and carries
\* an online-training cookie while the mode is DimmingWithOnlineTraining.
FeedsCohort ==
  /\ lastReq.forwarded
  /\ ~Contains(lastReq.req.path, <<".html">>)
  /\ lastReq.mode = DimmingWithOnlineTraining
  /\ lastReq.req.training # ""

\* C34: a forwarded request for a path without ".html" adds its duration to
\* exactly one cohort collector, the candidate one if its ONLINE_TRAINING
\* cookie is CANDIDATE and the control one otherwise, when the mode is
\* DimmingWithOnlineTraining and the request carries that cookie; in every
\* other case it adds to neither (both collectors were empty before).
C34_FeedsExactlyOneCohort ==
  lastReq.handled =>
    /\ Times(candidateGroupResponseTimes) =
         (IF FeedsCohort /\ lastReq.req.training = "CANDIDATE" THEN <<3000>> ELSE <<>>)
    /\ Times(controlGroupResponseTimes) =
         (IF FeedsCohort /\ lastReq.req.training # "CANDIDATE" THEN <<3000>> ELSE <<>>)

\* A forwarded request with an ONLINE_TRAINING cookie that is neither
\* CANDIDATE nor CONTROL has fed the control cohort.
C34_Witness ==
  /\ lastReq.handled
  /\ FeedsCohort
  /\ lastReq.req.training = "bogus"
  /\ Len(controlGroupResponseTimes) = 1
  /\ candidateGroupResponseTimes = <<>>


\* C39: SetAll is all-or-nothing: an admin update whose SetAll returns an
\* error, some rule of the batch having a probability outside [0, 1], has
\* applied none of its rules, and leaves the live probabilities and the
\* trainer's path list as they were before the call.
C39_FailedUpdateChangesNothing ==
  [][\A rules \in SamplingRules :
       (SetAllFails(rules) /\ UpdatePathProbabilities(rules))
         => UNCHANGED <<pathProbabilities, paths>>]_vars


\* ListForPaths holds the read lock and is about to take it again in Get.
ListForPathsReLocks ==
  \E k \in DOMAIN ReadingPc :
    callerPc["listForPaths"] = HeldPc[k] /\ k <= Len(paths)

\* C35: ListForPaths always returns when it runs concurrently with Set: it
\* never waits to take again a read lock it holds behind a writer that
\* waits for that lock, a wait neither of the two can leave.
C35_ListForPathsNeverWaitsOnItself ==
  ~(ListForPathsReLocks /\ probabilitiesMux.pending)


\* C36: a request is handled against a single mode value, also when
\* SetDimmingMode runs meanwhile: the mode of its feedback and of its
\* cookies is the mode of its shed decision, and the duration of a request
\* that was admitted under another mode than OfflineTraining is not added
\* to the offline collector (empty since the transition reset it).
C36_OneModePerRequest ==
  lastReq.handled =>
    /\ lastReq.feedbackMode = lastReq.mode
    /\ lastReq.mode # OfflineTraining => offlineResponseTimes = <<>>

\* C40: whenever checkCandidateImprovesResponseTimes reaches the KS call, the
\* control and the candidate sample lists it passes are both non-empty, under
\* every interleaving with handler adds and collector resets.
C40_KSSamplesNeverEmpty ==
  trainerPc = "ks" =>
    /\ lastCall.controlAll # <<>>
    /\ lastCall.candidateAll # <<>>

\* The KS call is reached while a StopLoop waits to reset the collectors and
\* a handler has added a candidate time since All() copied the list.
C40_Witness ==
  /\ trainerPc = "ks"
  /\ trainerStopClosed
  /\ Len(candidateGroupResponseTimes) > Len(lastCall.candidateAll)

====
